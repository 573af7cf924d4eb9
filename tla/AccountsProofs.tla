--------------------------- MODULE AccountsProofs ---------------------------
(***************************************************************************)
(* Proofs about Accounts for every set of accounts, codes and handlers.    *)
(***************************************************************************)
EXTENDS AccountsProperties, FiniteSetTheorems, SequenceTheorems, TLAPS

-----------------------------------------------------------------------------
(* Type correctness, with what a handler at each place holds.              *)

WithCode == {"reset.transaction", "verify.transaction"}
Issuing == {"register.create", "signIn.issue", "refresh.issue"}

Filled(x) ==
    /\ x.pc # "idle" => x.account \in Accounts
    /\ x.pc = "idle" => x.account = NoOne
    /\ x.pc \in Issuing => x.with \in 0 .. MaxPasswords
    /\ x.pc = "change.update" => x.with < MaxPasswords
    /\ x.pc \in WithCode => x.code \in Codes

TypeInv ==
    /\ TypeOK
    /\ \A p \in Procs : Filled(h[p])
    /\ \A a \in Accounts : account[a].isActive => Exists(a)
    /\ \A c \in Codes : code[c].st # "NONE" => code[c].account \in Accounts

LEMMA IdleFilled == Idle \in HandlerRecords /\ Filled(Idle) /\ Idle.pc = "idle"
  BY AccountsAssumption
     DEF Idle, HandlerRecords, Places, Filled, WithCode, Issuing, None

LEMMA RowsTyped == /\ NoAccount \in AccountRows /\ ~NoAccount.isActive
                   /\ ~NoAccount.isEmailVerified /\ NoAccount.refreshToken = NoToken
                   /\ NoCode \in CodeRows /\ NoCode.st = "NONE"
  BY AccountsAssumption
     DEF NoAccount, NoCode, AccountRows, CodeRows, CodeTypes, None, NoToken

LEMMA InitTypeInv == Init => TypeInv
<1> SUFFICES ASSUME Init
             PROVE  TypeInv
  OBVIOUS
<1>1. TypeOK
  BY IdleFilled, RowsTyped, AccountsAssumption DEF Init, TypeOK
<1>2. QED
  BY <1>1, IdleFilled, RowsTyped DEF Init, TypeInv

LEMMA TypeInvUnfolds ==
    ASSUME TypeInv
    PROVE  /\ account \in [Accounts -> AccountRows]
           /\ code \in [Codes -> CodeRows]
           /\ tokens \in [Accounts -> Seq(0 .. MaxPasswords)]
           /\ h \in [Procs -> HandlerRecords]
           /\ \A p \in Procs :
                 /\ h[p] \in HandlerRecords
                 /\ h[p].pc \in Places
                 /\ h[p].pc # "idle" => h[p].account \in Accounts
                 /\ h[p].pc = "idle" => h[p].account = NoOne
                 /\ h[p].pc \in Issuing => h[p].with \in 0 .. MaxPasswords
                 /\ h[p].pc = "change.update" => h[p].with < MaxPasswords
                 /\ h[p].pc \in WithCode => h[p].code \in Codes
  BY DEF TypeInv, TypeOK, Filled, HandlerRecords

(* The ways a step changes handlers and tables.                            *)
HandlersKeep == h' \in [Procs -> HandlerRecords] /\ \A q \in Procs : Filled(h'[q])
AccountsKeep ==
    /\ account' \in [Accounts -> AccountRows]
    /\ \A a \in Accounts : account'[a].isActive => account'[a].password # None
CodesKeep ==
    /\ code' \in [Codes -> CodeRows]
    /\ \A c \in Codes : code'[c].st # "NONE" => code'[c].account \in Accounts
TokensKeep == tokens' \in [Accounts -> Seq(0 .. MaxPasswords)]
RestKeeps ==
    /\ signIns' \in [Accounts -> Nat]
    /\ resets' \in [Accounts -> Nat]
    /\ inTurn' = inTurn
    /\ otpTask' \in [Accounts -> {"none", "deleteMany", "create"}]
Keeps == HandlersKeep /\ AccountsKeep /\ CodesKeep /\ TokensKeep /\ RestKeeps

LEMMA KeepsTypeInv == TypeInv /\ Keeps => TypeInv'
  BY DEF Keeps, HandlersKeep, AccountsKeep, CodesKeep, TokensKeep, RestKeeps,
         TypeInv, TypeOK, Exists

LEMMA SameKeeps ==
    ASSUME TypeInv
    PROVE  /\ h' = h => HandlersKeep
           /\ account' = account => AccountsKeep
           /\ code' = code => CodesKeep
           /\ tokens' = tokens => TokensKeep
           /\ UNCHANGED <<signIns, resets, inTurn, otpTask>> => RestKeeps
  BY DEF HandlersKeep, AccountsKeep, CodesKeep, TokensKeep, RestKeeps,
         TypeInv, TypeOK, Exists

LEMMA HandlerKeeps ==
    ASSUME TypeInv, NEW p \in Procs, NEW x \in HandlerRecords, Filled(x),
           h' = [h EXCEPT ![p] = x]
    PROVE  HandlersKeep /\ h'[p] = x /\ \A q \in Procs \ {p} : h'[q] = h[q]
  BY DEF TypeInv, TypeOK, HandlersKeep

LEMMA ReturnKeeps ==
    ASSUME TypeInv, NEW p \in Procs, Return(p)
    PROVE  HandlersKeep /\ h'[p] = Idle /\ \A q \in Procs \ {p} : h'[q] = h[q]
  BY IdleFilled, HandlerKeeps DEF Return

LEMMA StartKeeps ==
    ASSUME TypeInv, NEW p \in Procs, NEW pc \in Places \ {"idle"}, NEW a \in Accounts,
           NEW c \in Codes \cup {NoOne}, NEW w \in None .. MaxPasswords,
           pc \in Issuing => w \in 0 .. MaxPasswords,
           pc = "change.update" => w < MaxPasswords,
           pc \in WithCode => c \in Codes,
           Start(p, pc, a, c, w)
    PROVE  /\ HandlersKeep
           /\ h'[p] = [pc |-> pc, account |-> a, code |-> c, with |-> w]
           /\ \A q \in Procs \ {p} : h'[q] = h[q]
<1> DEFINE x == [pc |-> pc, account |-> a, code |-> c, with |-> w]
<1>1. x \in HandlerRecords /\ Filled(x)
  BY DEF HandlerRecords, Filled
<1>2. h' = [h EXCEPT ![p] = x]
  BY DEF Start
<1> HIDE DEF x
<1>3. QED
  BY <1>1, <1>2, HandlerKeeps DEF x

LEMMA GotoKeeps ==
    ASSUME TypeInv, NEW p \in Procs, NEW pc \in Places \ (WithCode \cup {"idle", "change.update"}),
           h[p].pc # "idle",
           pc \in Issuing => h[p].with \in 0 .. MaxPasswords,
           Goto(p, pc)
    PROVE  /\ HandlersKeep
           /\ h'[p].pc = pc /\ h'[p].account = h[p].account
           /\ \A q \in Procs \ {p} : h'[q] = h[q]
<1> DEFINE x == [h[p] EXCEPT !.pc = pc]
<1>1. x \in HandlerRecords /\ Filled(x) /\ x.pc = pc /\ x.account = h[p].account
  BY TypeInvUnfolds DEF HandlerRecords, Filled
<1>2. h' = [h EXCEPT ![p] = x]
  BY DEF Goto
<1> HIDE DEF x
<1>3. QED
  BY <1>1, <1>2, HandlerKeeps

LEMMA RowKeeps ==
    ASSUME TypeInv, NEW a \in Accounts, NEW row \in AccountRows,
           row.isActive => row.password # None,
           account' = [account EXCEPT ![a] = row]
    PROVE  AccountsKeep
  BY DEF TypeInv, TypeOK, AccountsKeep, Exists

LEMMA CodeKeeps ==
    ASSUME TypeInv, NEW c \in Codes, NEW row \in CodeRows,
           row.st # "NONE" => row.account \in Accounts,
           code' = [code EXCEPT ![c] = row]
    PROVE  CodesKeep
  BY DEF TypeInv, TypeOK, CodesKeep

LEMMA DeleteKeeps ==
    ASSUME TypeInv, NEW a, NEW type, DeleteUnused(a, type)
    PROVE  CodesKeep
  BY RowsTyped DEF TypeInv, TypeOK, CodesKeep, DeleteUnused

LEMMA CreateKeeps ==
    ASSUME TypeInv, NEW a \in Accounts, NEW type \in CodeTypes, CreateCode(a, type)
    PROVE  CodesKeep
<1> PICK c \in Codes : code' = [code EXCEPT ![c] = [st |-> "LIVE", type |-> type, account |-> a]]
  BY DEF CreateCode
<1>1. [st |-> "LIVE", type |-> type, account |-> a] \in CodeRows
  BY DEF CodeRows
<1>2. QED
  BY <1>1, CodeKeeps

LEMMA MarkKeeps ==
    ASSUME TypeInv, NEW c \in Codes, NEW st \in {"USED", "EXPIRED"}, code[c].st # "NONE",
           code' = [code EXCEPT ![c].st = st]
    PROVE  CodesKeep
<1> DEFINE row == [code[c] EXCEPT !.st = st]
<1>1. code[c] \in CodeRows /\ code[c].account \in Accounts
  BY DEF TypeInv, TypeOK
<1>2. row \in CodeRows /\ row.account \in Accounts
  BY <1>1 DEF CodeRows
<1>3. code' = [code EXCEPT ![c] = row]
  OBVIOUS
<1> HIDE DEF row
<1>4. QED
  BY <1>2, <1>3, CodeKeeps

-----------------------------------------------------------------------------
(* A new request changes its handler only, and says what it has read.      *)

Tables == <<account, code, tokens, signIns, resets, inTurn, otpTask>>

(* What the handler of a new request x on account a may hold.              *)
Asked(x) ==
    LET a == x.account
    IN  /\ a \in inTurn => \A q \in Procs : h[q].account # a
        /\ \/ x.pc = "register.create"
           \/ x.pc = "signIn.issue" /\ Exists(a)
           \/ x.pc = "refresh.issue" /\ account[a].refreshToken # NoToken
           \/ /\ x.pc \in {"logout.update", "forgot.deleteMany", "otp.deleteMany"}
              /\ Exists(a)
           \/ x.pc = "change.update" /\ Exists(a) /\ x.with = account[a].password
           \/ /\ x.pc = "reset.transaction" /\ code[x.code].st = "LIVE"
              /\ code[x.code].account = a /\ code[x.code].type = "PASSWORD_RESET"
           \/ /\ x.pc = "verify.transaction" /\ code[x.code].st = "LIVE"
              /\ code[x.code].account = a /\ code[x.code].type = "EMAIL_VERIFY"

NewlyAsked(p) ==
    /\ HandlersKeep
    /\ UNCHANGED Tables
    /\ h[p].pc = "idle"
    /\ h'[p].account \in Accounts
    /\ Asked(h'[p])
    /\ \A q \in Procs \ {p} : h'[q] = h[q]

LEMMA NewRequestAsks ==
    ASSUME TypeInv, NEW p \in Procs, NewRequest(p)
    PROVE  NewlyAsked(p)
<1> USE DEF Free
<1>a. /\ NoOne \notin Accounts /\ NoOne \in Codes \cup {NoOne}
      /\ None \in None .. MaxPasswords /\ 0 \in None .. MaxPasswords /\ 0 \in 0 .. MaxPasswords
  BY AccountsAssumption DEF None
<1>b. ASSUME NEW a \in Accounts
      PROVE  /\ account[a].password \in None .. MaxPasswords
             /\ account[a].password # None => account[a].password \in 0 .. MaxPasswords
             /\ account[a].isActive => Exists(a)
  BY TypeInvUnfolds, AccountsAssumption DEF TypeInv, AccountRows, None
<1>c. ASSUME NEW pc \in Places \ {"idle"}, NEW a \in Accounts,
             NEW c \in Codes \cup {NoOne}, NEW w \in None .. MaxPasswords,
             pc \in Issuing => w \in 0 .. MaxPasswords,
             pc = "change.update" => w < MaxPasswords,
             pc \in WithCode => c \in Codes,
             Start(p, pc, a, c, w), Free(p, a), UNCHANGED Tables,
             Asked([pc |-> pc, account |-> a, code |-> c, with |-> w])
      PROVE  NewlyAsked(p)
  BY <1>c, StartKeeps DEF NewlyAsked
<1>1. ASSUME NEW a \in Accounts, RegisterFind(p, a)
      PROVE  NewlyAsked(p)
  <2>1. Start(p, "register.create", a, NoOne, 0) /\ Free(p, a) /\ UNCHANGED Tables
    BY <1>1 DEF RegisterFind, Tables
  <2>2. Asked([pc |-> "register.create", account |-> a, code |-> NoOne, with |-> 0])
    BY <2>1 DEF Asked
  <2>3. QED
    BY <2>1, <2>2, <1>a, <1>c DEF Places, Issuing, WithCode
<1>2. ASSUME NEW a \in Accounts, LoginFind(p, a)
      PROVE  NewlyAsked(p)
  <2> DEFINE w == account[a].password
  <2>1. Start(p, "signIn.issue", a, NoOne, w) /\ Free(p, a) /\ UNCHANGED Tables
    BY <1>2 DEF LoginFind, Tables
  <2>2. Exists(a) /\ w \in None .. MaxPasswords /\ w \in 0 .. MaxPasswords
    BY <1>2, <1>b DEF LoginFind, Exists
  <2> HIDE DEF w
  <2>3. Asked([pc |-> "signIn.issue", account |-> a, code |-> NoOne, with |-> w])
    BY <2>1, <2>2 DEF Asked
  <2>4. QED
    BY <2>1, <2>2, <2>3, <1>a, <1>c DEF Places, Issuing, WithCode
<1>3. ASSUME NEW a \in Accounts, LogoutFind(p, a)
      PROVE  NewlyAsked(p)
  <2>1. Start(p, "logout.update", a, NoOne, None) /\ Free(p, a) /\ UNCHANGED Tables
    BY <1>3 DEF LogoutFind, Tables
  <2>2. Asked([pc |-> "logout.update", account |-> a, code |-> NoOne, with |-> None])
    BY <2>1, <1>3, <1>b DEF Asked, LogoutFind
  <2>3. QED
    BY <2>1, <2>2, <1>a, <1>c DEF Places, Issuing, WithCode
<1>4. ASSUME NEW a \in Accounts, ChangeFind(p, a)
      PROVE  NewlyAsked(p)
  <2> DEFINE w == account[a].password
  <2>1. Start(p, "change.update", a, NoOne, w) /\ Free(p, a) /\ UNCHANGED Tables
    BY <1>4 DEF ChangeFind, Tables
  <2>2. Exists(a) /\ w \in None .. MaxPasswords /\ w < MaxPasswords /\ w = account[a].password
    BY <1>4, <1>b DEF ChangeFind
  <2> HIDE DEF w
  <2>3. Asked([pc |-> "change.update", account |-> a, code |-> NoOne, with |-> w])
    BY <2>1, <2>2 DEF Asked
  <2>4. QED
    BY <2>1, <2>2, <2>3, <1>a, <1>c DEF Places, Issuing, WithCode
<1>5. ASSUME NEW a \in Accounts, ForgotFind(p, a)
      PROVE  NewlyAsked(p)
  <2>1. Start(p, "forgot.deleteMany", a, NoOne, None) /\ Free(p, a) /\ UNCHANGED Tables
    BY <1>5 DEF ForgotFind, Tables
  <2>2. Asked([pc |-> "forgot.deleteMany", account |-> a, code |-> NoOne, with |-> None])
    BY <2>1, <1>5 DEF Asked, ForgotFind
  <2>3. QED
    BY <2>1, <2>2, <1>a, <1>c DEF Places, Issuing, WithCode
<1>6. ASSUME NEW a \in Accounts, ResendFind(p, a)
      PROVE  NewlyAsked(p)
  <2>1. Start(p, "otp.deleteMany", a, NoOne, None) /\ Free(p, a) /\ UNCHANGED Tables
    BY <1>6 DEF ResendFind, Tables
  <2>2. Asked([pc |-> "otp.deleteMany", account |-> a, code |-> NoOne, with |-> None])
    BY <2>1, <1>6, <1>b DEF Asked, ResendFind
  <2>3. QED
    BY <2>1, <2>2, <1>a, <1>c DEF Places, Issuing, WithCode
<1>7. ASSUME NEW a \in Accounts, NEW token \in 1 .. MaxTokens, RefreshFind(p, a, token)
      PROVE  NewlyAsked(p)
  <2> DEFINE w == tokens[a][token]
  <2>1. Start(p, "refresh.issue", a, NoOne, w) /\ Free(p, a) /\ UNCHANGED Tables
    BY <1>7 DEF RefreshFind, Tables
  <2>2. w \in 0 .. MaxPasswords
    <3>1. tokens[a] \in Seq(0 .. MaxPasswords) /\ token \in DOMAIN tokens[a]
      BY <1>7, TypeInvUnfolds DEF RefreshFind
    <3>2. QED
      BY <3>1, ElementOfSeq, LenProperties DEF w
  <2>3. w \in None .. MaxPasswords
    BY <2>2, AccountsAssumption DEF None
  <2>4. account[a].refreshToken # NoToken
    BY <1>7 DEF RefreshFind
  <2> HIDE DEF w
  <2>5. Asked([pc |-> "refresh.issue", account |-> a, code |-> NoOne, with |-> w])
    BY <2>1, <2>4 DEF Asked
  <2>6. QED
    BY <2>1, <2>2, <2>3, <2>5, <1>a, <1>c DEF Places, Issuing, WithCode
<1>8. ASSUME NEW c \in Codes, ResetFindMany(p, c)
      PROVE  NewlyAsked(p)
  <2> DEFINE a == code[c].account
  <2>1. /\ Start(p, "reset.transaction", a, c, None) /\ Free(p, a) /\ UNCHANGED Tables
        /\ a \in Accounts /\ code[c].st = "LIVE" /\ code[c].type = "PASSWORD_RESET"
        /\ code[c].account = a
    BY <1>8 DEF ResetFindMany, Tables, TypeInv
  <2> HIDE DEF a
  <2>2. Asked([pc |-> "reset.transaction", account |-> a, code |-> c, with |-> None])
    BY <2>1 DEF Asked
  <2>3. QED
    BY <2>1, <2>2, <1>a, <1>c DEF Places, Issuing, WithCode
<1>9. ASSUME NEW c \in Codes, VerifyFindMany(p, c)
      PROVE  NewlyAsked(p)
  <2> DEFINE a == code[c].account
  <2>1. /\ Start(p, "verify.transaction", a, c, None) /\ Free(p, a) /\ UNCHANGED Tables
        /\ a \in Accounts /\ code[c].st = "LIVE" /\ code[c].type = "EMAIL_VERIFY"
        /\ code[c].account = a
    BY <1>9 DEF VerifyFindMany, Tables, TypeInv
  <2> HIDE DEF a
  <2>2. Asked([pc |-> "verify.transaction", account |-> a, code |-> c, with |-> None])
    BY <2>1 DEF Asked
  <2>3. QED
    BY <2>1, <2>2, <1>a, <1>c DEF Places, Issuing, WithCode
<1>10. QED
  BY <1>1, <1>2, <1>3, <1>4, <1>5, <1>6, <1>7, <1>8, <1>9 DEF NewRequest

-----------------------------------------------------------------------------
(* A step of a handler moves that handler only: on to the next call of its *)
(* request, or back to idle.                                               *)
Others(p) == \A q \in Procs \ {p} : h'[q] = h[q]
Returned(p) == HandlersKeep /\ h'[p] = Idle /\ Others(p)
Moved(p, pc) ==
    HandlersKeep /\ h'[p].pc = pc /\ h'[p].account = h[p].account /\ Others(p)

LEMMA Returns ==
    ASSUME TypeInv, NEW p \in Procs, Return(p)
    PROVE  Returned(p)
  BY ReturnKeeps DEF Returned, Others

LEMMA Moves ==
    ASSUME TypeInv, NEW p \in Procs, NEW pc \in {"signIn.issue", "forgot.create", "otp.create"},
           h[p].pc # "idle", pc \in Issuing => h[p].with \in 0 .. MaxPasswords, Goto(p, pc)
    PROVE  Moved(p, pc)
<1>1. pc \in Places \ (WithCode \cup {"idle", "change.update"})
  BY DEF Places, WithCode
<1>2. QED
  BY <1>1, GotoKeeps DEF Moved, Others

LEMMA ActorTyped ==
    ASSUME TypeInv, NEW p \in Procs, h[p].pc # "idle"
    PROVE  /\ h[p].account \in Accounts
           /\ account[h[p].account] \in AccountRows
           /\ account[h[p].account].isActive => Exists(h[p].account)
           /\ tokens[h[p].account] \in Seq(0 .. MaxPasswords)
           /\ Len(tokens[h[p].account]) \in Nat
<1>1. h[p].account \in Accounts
  BY TypeInvUnfolds
<1>2. tokens[h[p].account] \in Seq(0 .. MaxPasswords)
  BY <1>1, TypeInvUnfolds
<1>3. Len(tokens[h[p].account]) \in Nat
  BY <1>2, LenProperties
<1>4. QED
  BY <1>1, <1>2, <1>3, TypeInvUnfolds DEF TypeInv

LEMMA NewRowTyped ==
    /\ NewAccount \in AccountRows /\ NewAccount.password = 0 /\ NewAccount.password # None
    /\ ~NewAccount.isEmailVerified /\ NewAccount.refreshToken = NoToken
  BY AccountsAssumption DEF NewAccount, AccountRows, None, NoToken

LEMMA RegisterKeeps ==
    ASSUME TypeInv, NEW p \in Procs, RegisterCreate(p)
    PROVE  Keeps /\ (Returned(p) \/ Moved(p, "signIn.issue"))
<1> DEFINE a == h[p].account
           row == NewAccount
<1>1. h[p].pc # "idle" /\ h[p].with \in 0 .. MaxPasswords
  BY TypeInvUnfolds DEF RegisterCreate, At, Issuing
<1>2. a \in Accounts
  BY <1>1, ActorTyped
<1>3. CodesKeep /\ TokensKeep
  BY SameKeeps DEF RegisterCreate
<1>4. CASE Exists(a)
  <2>1. Return(p) /\ UNCHANGED <<account, signIns, resets, inTurn, otpTask>>
    BY <1>4 DEF RegisterCreate
  <2>2. QED
    BY <2>1, <1>3, Returns, SameKeeps DEF Keeps, Returned
<1>5. CASE ~Exists(a)
  <2>1. /\ account' = [account EXCEPT ![a] = row]
        /\ Goto(p, "signIn.issue")
        /\ otpTask' = [otpTask EXCEPT ![a] = "deleteMany"]
        /\ UNCHANGED <<signIns, resets, inTurn>>
    BY <1>5 DEF RegisterCreate
  <2>2. row \in AccountRows /\ row.password # None
    BY NewRowTyped
  <2> HIDE DEF row
  <2>3. AccountsKeep
    BY <1>2, <2>1, <2>2, RowKeeps
  <2>4. RestKeeps
    BY <2>1 DEF RestKeeps, TypeInv, TypeOK
  <2>5. Moved(p, "signIn.issue")
    BY <1>1, <2>1, Moves
  <2>6. QED
    BY <1>3, <2>3, <2>4, <2>5 DEF Keeps, Moved
<1>6. QED
  BY <1>4, <1>5

LEMMA IssueKeeps ==
    ASSUME TypeInv, NEW p \in Procs, IssueUpdate(p)
    PROVE  Keeps /\ Returned(p)
<1> DEFINE a == h[p].account
           row == [account[a] EXCEPT !.refreshToken = Len(tokens[a]) + 1]
           more == Append(tokens[a], h[p].with)
<1>1. h[p].pc # "idle" /\ h[p].with \in 0 .. MaxPasswords
  BY TypeInvUnfolds DEF IssueUpdate, At, Issuing
<1>2. /\ a \in Accounts /\ account[a] \in AccountRows
      /\ account[a].isActive => account[a].password # None
      /\ tokens[a] \in Seq(0 .. MaxPasswords) /\ Len(tokens[a]) \in Nat
  BY <1>1, ActorTyped DEF Exists
<1>3. /\ account' = [account EXCEPT ![a] = row]
      /\ tokens' = [tokens EXCEPT ![a] = more]
      /\ Len(tokens[a]) < MaxTokens
      /\ UNCHANGED <<code, resets, inTurn, otpTask>>
  BY DEF IssueUpdate
<1>4. row \in AccountRows /\ (row.isActive => row.password # None)
  BY <1>2, <1>3, AccountsAssumption DEF AccountRows
<1>5. more \in Seq(0 .. MaxPasswords)
  BY <1>1, <1>2, AppendProperties
<1>6. Returned(p)
  BY Returns DEF IssueUpdate
<1>7. RestKeeps
  <2>1. signIns' = [signIns EXCEPT ![a] = IF At(p, "signIn.issue") THEN @ + 1 ELSE @]
    BY DEF IssueUpdate
  <2>2. QED
    BY <1>2, <1>3, <2>1 DEF RestKeeps, TypeInv, TypeOK
<1> HIDE DEF row, more, a
<1>8. AccountsKeep
  BY <1>2, <1>3, <1>4, RowKeeps
<1>9. TokensKeep
  BY <1>2, <1>3, <1>5, TypeInvUnfolds DEF TokensKeep
<1>10. QED
  BY <1>3, <1>6, <1>7, <1>8, <1>9, SameKeeps DEF Keeps, Returned

LEMMA NewPasswordTyped ==
    ASSUME NEW row \in AccountRows, NEW pw \in 0 .. MaxPasswords
    PROVE  /\ NewPassword(row, pw) \in AccountRows
           /\ NewPassword(row, pw).password = pw /\ NewPassword(row, pw).password # None
           /\ NewPassword(row, pw).refreshToken = NoToken
<1> DEFINE first == [row EXCEPT !.password = pw]
<1>1. first \in AccountRows /\ first.password = pw /\ pw # None
  BY AccountsAssumption DEF AccountRows, None
<1>2. NewPassword(row, pw) = [first EXCEPT !.refreshToken = NoToken]
  BY DEF NewPassword
<1> HIDE DEF first
<1>3. /\ NewPassword(row, pw) \in AccountRows /\ NewPassword(row, pw).password = pw
      /\ NewPassword(row, pw).refreshToken = NoToken
  BY <1>1, <1>2, AccountsAssumption DEF AccountRows, NoToken
<1>4. QED
  BY <1>1, <1>3

LEMMA LogoutKeeps ==
    ASSUME TypeInv, NEW p \in Procs, LogoutUpdate(p)
    PROVE  Keeps /\ Returned(p)
<1> DEFINE a == h[p].account
           row == [account[a] EXCEPT !.refreshToken = NoToken]
<1>1. h[p].pc # "idle"
  BY DEF LogoutUpdate, At
<1>2. /\ a \in Accounts /\ account[a] \in AccountRows
      /\ account[a].isActive => account[a].password # None
  BY <1>1, ActorTyped DEF Exists
<1>3. account' = [account EXCEPT ![a] = row]
  BY DEF LogoutUpdate
<1>4. row \in AccountRows /\ (row.isActive => row.password # None)
  BY <1>2, AccountsAssumption DEF AccountRows, NoToken
<1> HIDE DEF row, a
<1>5. AccountsKeep
  BY <1>2, <1>3, <1>4, RowKeeps
<1>6. QED
  BY <1>5, Returns, SameKeeps DEF LogoutUpdate, Keeps, Returned

LEMMA ChangeKeeps ==
    ASSUME TypeInv, NEW p \in Procs, ChangeUpdate(p)
    PROVE  Keeps /\ Returned(p)
<1> DEFINE a == h[p].account
           row == NewPassword(account[a], h[p].with + 1)
<1>1. h[p].pc # "idle" /\ h[p].with < MaxPasswords /\ h[p].with \in None .. MaxPasswords
  BY TypeInvUnfolds DEF ChangeUpdate, At, HandlerRecords
<1>2. a \in Accounts /\ account[a] \in AccountRows
  BY <1>1, ActorTyped
<1>3. account' = [account EXCEPT ![a] = row]
  BY DEF ChangeUpdate
<1>4. h[p].with + 1 \in 0 .. MaxPasswords
  BY <1>1, AccountsAssumption DEF None
<1>5. row \in AccountRows /\ row.password # None
  BY <1>2, <1>4, NewPasswordTyped
<1> HIDE DEF row, a
<1>6. AccountsKeep
  BY <1>2, <1>3, <1>5, RowKeeps
<1>7. QED
  BY <1>6, Returns, SameKeeps DEF ChangeUpdate, Keeps, Returned

LEMMA CodeCallKeeps ==
    ASSUME TypeInv, NEW p \in Procs,
           ForgotDeleteMany(p) \/ ForgotCreate(p) \/ OtpDeleteMany(p) \/ OtpCreate(p)
    PROVE  Keeps /\ (Returned(p) \/ Moved(p, "forgot.create") \/ Moved(p, "otp.create"))
<1>1. h[p].pc # "idle" /\ UNCHANGED <<account, tokens, signIns, resets, inTurn, otpTask>>
  BY DEF ForgotDeleteMany, ForgotCreate, OtpDeleteMany, OtpCreate, At
<1>2. h[p].account \in Accounts
  BY <1>1, ActorTyped
<1>3. CodesKeep
  BY <1>2, DeleteKeeps, CreateKeeps
     DEF ForgotDeleteMany, ForgotCreate, OtpDeleteMany, OtpCreate, CodeTypes
<1>4. Returned(p) \/ Moved(p, "forgot.create") \/ Moved(p, "otp.create")
  BY <1>1, Returns, Moves
     DEF ForgotDeleteMany, ForgotCreate, OtpDeleteMany, OtpCreate, Issuing
<1>5. QED
  BY <1>1, <1>3, <1>4, SameKeeps DEF Keeps, Returned, Moved

LEMMA ResetKeeps ==
    ASSUME TypeInv, NEW p \in Procs, ResetTransaction(p)
    PROVE  Keeps /\ Returned(p)
<1> DEFINE a == h[p].account
           c == h[p].code
           row == NewPassword(account[a], account[a].password + 1)
<1>1. h[p].pc # "idle" /\ c \in Codes
  BY TypeInvUnfolds DEF ResetTransaction, At, WithCode
<1>2. a \in Accounts /\ account[a] \in AccountRows
  BY <1>1, ActorTyped
<1>3. Returned(p)
  BY Returns DEF ResetTransaction
<1>4. TokensKeep /\ UNCHANGED <<signIns, inTurn, otpTask>>
  BY SameKeeps DEF ResetTransaction
<1>5. CASE code[c].st = "NONE"
  <2>1. UNCHANGED <<account, code, resets>>
    BY <1>5 DEF ResetTransaction
  <2>2. QED
    BY <1>3, <1>4, <2>1, SameKeeps DEF Keeps, Returned
<1>6. CASE code[c].st # "NONE"
  <2>1. /\ account[a].password < MaxPasswords
        /\ code' = [code EXCEPT ![c].st = "USED"]
        /\ account' = [account EXCEPT ![a] = row]
        /\ resets' = [resets EXCEPT ![a] = @ + 1]
    BY <1>6 DEF ResetTransaction
  <2>2. CodesKeep
    BY <1>1, <1>6, <2>1, MarkKeeps
  <2>3. account[a].password + 1 \in 0 .. MaxPasswords
    BY <1>2, <2>1, AccountsAssumption DEF AccountRows, None
  <2>4. row \in AccountRows /\ row.password # None
    BY <1>2, <2>3, NewPasswordTyped
  <2>5. RestKeeps
    BY <1>2, <1>4, <2>1 DEF RestKeeps, TypeInv, TypeOK
  <2> HIDE DEF row, a, c
  <2>6. AccountsKeep
    BY <1>2, <2>1, <2>4, RowKeeps
  <2>7. QED
    BY <1>3, <1>4, <2>2, <2>5, <2>6 DEF Keeps, Returned
<1>7. QED
  BY <1>5, <1>6

LEMMA VerifyKeeps ==
    ASSUME TypeInv, NEW p \in Procs, VerifyTransaction(p)
    PROVE  Keeps /\ Returned(p)
<1> DEFINE a == h[p].account
           c == h[p].code
           row == [account[a] EXCEPT !.isEmailVerified = TRUE]
<1>1. h[p].pc # "idle" /\ c \in Codes
  BY TypeInvUnfolds DEF VerifyTransaction, At, WithCode
<1>2. /\ a \in Accounts /\ account[a] \in AccountRows
      /\ account[a].isActive => account[a].password # None
  BY <1>1, ActorTyped DEF Exists
<1>3. Returned(p)
  BY Returns DEF VerifyTransaction
<1>4. TokensKeep /\ RestKeeps
  BY SameKeeps DEF VerifyTransaction
<1>5. CASE code[c].st = "NONE"
  <2>1. UNCHANGED <<account, code>>
    BY <1>5 DEF VerifyTransaction
  <2>2. QED
    BY <1>3, <1>4, <2>1, SameKeeps DEF Keeps, Returned
<1>6. CASE code[c].st # "NONE"
  <2>1. /\ code' = [code EXCEPT ![c].st = "USED"]
        /\ account' = [account EXCEPT ![a] = row]
    BY <1>6 DEF VerifyTransaction
  <2>2. CodesKeep
    BY <1>1, <1>6, <2>1, MarkKeeps
  <2>3. row \in AccountRows /\ (row.isActive => row.password # None)
    BY <1>2 DEF AccountRows
  <2> HIDE DEF row, a, c
  <2>4. AccountsKeep
    BY <1>2, <2>1, <2>3, RowKeeps
  <2>5. QED
    BY <1>3, <1>4, <2>2, <2>4 DEF Keeps, Returned
<1>7. QED
  BY <1>5, <1>6

LEMMA HandlerStepKeeps ==
    ASSUME TypeInv, NEW p \in Procs, HandlerStep(p)
    PROVE  Keeps
  BY RegisterKeeps, IssueKeeps, LogoutKeeps, ChangeKeeps, CodeCallKeeps, ResetKeeps,
     VerifyKeeps
     DEF HandlerStep

LEMMA TaskStepKeeps ==
    ASSUME TypeInv, NEW a \in Accounts,
           OtpTaskDeletes(a) \/ OtpTaskCreates(a) \/ OtpTaskFails(a)
    PROVE  Keeps
<1>1. UNCHANGED <<account, tokens, signIns, resets, inTurn, h>>
  BY DEF OtpTaskDeletes, OtpTaskCreates, OtpTaskFails
<1>2. \E x \in {"none", "create"} : otpTask' = [otpTask EXCEPT ![a] = x]
  BY DEF OtpTaskDeletes, OtpTaskCreates, OtpTaskFails
<1>3. RestKeeps
  BY <1>1, <1>2 DEF RestKeeps, TypeInv, TypeOK
<1>4. CodesKeep
  BY DeleteKeeps, CreateKeeps, SameKeeps
     DEF OtpTaskDeletes, OtpTaskCreates, OtpTaskFails, CodeTypes
<1>5. QED
  BY <1>1, <1>3, <1>4, SameKeeps DEF Keeps

LEMMA SetActiveKeeps ==
    ASSUME TypeInv, NEW a \in Accounts, NEW b \in BOOLEAN, SetActive(a, b)
    PROVE  Keeps
<1> DEFINE row == [account[a] EXCEPT !.isActive = b]
<1>1. account' = [account EXCEPT ![a] = row] /\ account[a].password # None
  BY DEF SetActive, Exists
<1>2. row \in AccountRows /\ row.password # None
  BY <1>1, TypeInvUnfolds DEF AccountRows
<1> HIDE DEF row
<1>3. AccountsKeep
  BY <1>1, <1>2, RowKeeps
<1>4. QED
  BY <1>3, SameKeeps DEF SetActive, Keeps

LEMMA StepKeeps == TypeInv /\ [Next]_vars => TypeInv'
<1> SUFFICES ASSUME TypeInv, [Next]_vars
             PROVE  TypeInv'
  OBVIOUS
<1>1. ASSUME NEW p \in Procs, HandlerStep(p)
      PROVE  Keeps
  BY <1>1, HandlerStepKeeps
<1>2. ASSUME NEW p \in Procs, NewRequest(p)
      PROVE  Keeps
  BY <1>2, NewRequestAsks, SameKeeps DEF NewlyAsked, Tables, Keeps
<1>3. ASSUME NEW p \in Procs, HandlerFails(p)
      PROVE  Keeps
  BY <1>3, ReturnKeeps, SameKeeps DEF HandlerFails, Keeps
<1>4. ASSUME NEW a \in Accounts, OtpTaskDeletes(a) \/ OtpTaskCreates(a) \/ OtpTaskFails(a)
      PROVE  Keeps
  BY <1>4, TaskStepKeeps
<1>5. ASSUME NEW a \in Accounts, NEW b \in BOOLEAN, SetActive(a, b)
      PROVE  Keeps
  BY <1>5, SetActiveKeeps
<1>6. ASSUME NEW c \in Codes, CodeExpires(c)
      PROVE  Keeps
  BY <1>6, MarkKeeps, SameKeeps DEF CodeExpires, Keeps
<1>7. CASE UNCHANGED vars
  BY <1>7, SameKeeps, KeepsTypeInv DEF vars, Keeps
<1>8. QED
  <2>1. CASE Next
    <3>1. Keeps
      BY <1>1, <1>2, <1>3, <1>4, <1>5, <1>6, <2>1 DEF Next
    <3>2. QED
      BY <3>1, KeepsTypeInv
  <2>2. QED
    BY <1>7, <2>1, KeepsTypeInv

(* Every table holds rows of its type, a handler always names its account, *)
(* and the one that replaces a password found it below the bound.          *)
THEOREM TypeCorrect == Spec => []TypeOK
<1>1. TypeInv => TypeOK
  BY DEF TypeInv
<1>2. QED
  BY InitTypeInv, StepKeeps, <1>1, PTL DEF Spec
-----------------------------------------------------------------------------
(* What keeps a code and the request that carries it together.             *)

Carries(x) == x.pc \in WithCode
TypeFor(x) == IF x.pc = "verify.transaction" THEN "EMAIL_VERIFY" ELSE "PASSWORD_RESET"

(* A code found by a request, unless it was deleted, is still a code of    *)
(* the request's account and of its kind.                                  *)
Linked ==
    \A p \in Procs :
        Carries(h[p]) =>
            \/ code[h[p].code].st = "NONE"
            \/ /\ code[h[p].code].account = h[p].account
               /\ code[h[p].code].type = TypeFor(h[p])

(* Only accounts that exist have codes, sessions and requests, those to    *)
(* register excepted.                                                      *)
Known ==
    /\ \A a \in Accounts : account[a].refreshToken # NoToken => Exists(a)
    /\ \A a \in Accounts : otpTask[a] # "none" => Exists(a)
    /\ \A c \in Codes : code[c].st # "NONE" => Exists(code[c].account)
    /\ \A p \in Procs : h[p].pc \notin {"idle", "register.create"} => Exists(h[p].account)

(* A request on an account of inTurn is alone, and finds what it read.     *)
Alone ==
    \A p, q \in Procs :
        h[p].account \in inTurn /\ h[q].account = h[p].account => p = q

AsRead(x) ==
    /\ x.pc = "refresh.issue" => account[x.account].refreshToken # NoToken
    /\ x.pc = "change.update" => x.with = account[x.account].password
    /\ x.pc = "reset.transaction" => code[x.code].st \in {"LIVE", "EXPIRED"}

Undisturbed == \A p \in Procs : h[p].account \in inTurn => AsRead(h[p])

Together == TypeInv /\ Linked /\ Known /\ Alone /\ Undisturbed

LEMMA InitTogether == Init => Together
<1> SUFFICES ASSUME Init
             PROVE  Together
  OBVIOUS
<1>1. TypeInv
  BY InitTypeInv
<1>2. Linked /\ Undisturbed
  BY DEF Init, Idle, Linked, Undisturbed, AsRead, Carries, WithCode
<1>3. Known
  BY DEF Init, Idle, Known, NoAccount, NoCode
<1>4. Alone
  BY AccountsAssumption DEF Init, Idle, Alone
<1>5. QED
  BY <1>1, <1>2, <1>3, <1>4 DEF Together

-----------------------------------------------------------------------------
(* What a step may do to the handlers, the accounts and the codes.         *)

Settled == {"idle", "signIn.issue", "forgot.create", "otp.create"}

(* Handler p, which works on account a, takes a step that leaves it        *)
(* nothing it relies on.                                                   *)
Acted(p, a) ==
    /\ h[p].pc # "idle" /\ h[p].account = a
    /\ h'[p].pc \in Settled
    /\ h'[p].pc # "idle" => h'[p].account = a

HandlersStep ==
    \A q \in Procs :
        \/ h'[q] = h[q]
        \/ h'[q] = Idle
        \/ Acted(q, h[q].account) /\ account'[h[q].account].password # None
        \/ NewlyAsked(q)

SameLogin(a) ==
    /\ account'[a].password = account[a].password
    /\ account'[a].refreshToken = account[a].refreshToken

AccountsStep ==
    \A a \in Accounts :
        /\ SameLogin(a) \/ \E p \in Procs : Acted(p, a)
        /\ Exists(a) => Exists(a)'
        /\ account'[a].refreshToken # NoToken => Exists(a)'

CodesStep ==
    \A c \in Codes :
        \/ code'[c] = code[c]
        \/ /\ code[c].st = "NONE" /\ code'[c].st = "LIVE"
           /\ \A q \in Procs : h[q].code # c
           /\ Exists(code'[c].account)
        \/ /\ code[c].st \in {"LIVE", "EXPIRED"} /\ code'[c].st = "NONE"
           /\ \/ code[c].type = "EMAIL_VERIFY"
              \/ \E p \in Procs : Acted(p, code[c].account)
        \/ /\ code[c].st = "LIVE" /\ code'[c] = [code[c] EXCEPT !.st = "EXPIRED"]
        \/ /\ code[c].st # "NONE" /\ code'[c] = [code[c] EXCEPT !.st = "USED"]
           /\ \E p \in Procs : /\ Acted(p, code[c].account)
                               /\ Carries(h[p]) /\ h[p].code = c

TaskStep == \A a \in Accounts : otpTask'[a] # "none" => Exists(a)'

Effect == HandlersStep /\ AccountsStep /\ CodesStep /\ TaskStep

(* These effects keep the invariant.                                       *)
LEMMA EffectKeepsTogether ==
    ASSUME Together, TypeInv', Effect, UNCHANGED inTurn
    PROVE  Together'
<1> USE DEF Together, Effect
<1>1. ASSUME NEW q \in Procs, NewlyAsked(q)
      PROVE  /\ UNCHANGED Tables
             /\ \A r \in Procs \ {q} : h'[r] = h[r]
             /\ Asked(h'[q]) /\ h'[q].account \in Accounts
  BY <1>1 DEF NewlyAsked
<1>2. Linked'
  <2> SUFFICES ASSUME NEW p \in Procs, Carries(h'[p]), code'[h'[p].code].st # "NONE"
               PROVE  /\ code'[h'[p].code].account = h'[p].account
                      /\ code'[h'[p].code].type = TypeFor(h'[p])
    BY DEF Linked, Carries, TypeFor
  <2>1. CASE h'[p] = h[p]
    <3> DEFINE c == h[p].code
    <3>1. c \in Codes /\ code[c] \in CodeRows
      BY <2>1, TypeInvUnfolds DEF Carries
    <3>2. code'[c].st # "NONE" /\ h[p].code = c
      BY <2>1
    <3> HIDE DEF c
    <3>3. /\ code[c].st # "NONE"
          /\ code'[c].account = code[c].account /\ code'[c].type = code[c].type
      BY <3>1, <3>2 DEF CodesStep, CodeRows
    <3>4. QED
      BY <2>1, <3>2, <3>3 DEF Linked, c
  <2>2. CASE NewlyAsked(p)
    <3>1. UNCHANGED code /\ Asked(h'[p])
      BY <2>2, <1>1 DEF Tables
    <3>2. QED
      BY <3>1 DEF Asked, Carries, WithCode, TypeFor
  <2>3. QED
    BY <2>1, <2>2 DEF HandlersStep, Acted, Settled, Carries, WithCode, Idle
<1>3. Known'
  <2>1. \A a \in Accounts : Exists(a) => Exists(a)'
    BY DEF AccountsStep
  <2>2. ASSUME NEW c \in Codes, code'[c].st # "NONE"
        PROVE  Exists(code[c].account)'
    <3>1. code'[c].account \in Accounts /\ code[c] \in CodeRows
      BY <2>2, TypeInvUnfolds DEF TypeInv
    <3>2. Exists(code'[c].account)
      <4>1. CASE code'[c] = code[c]
        BY <4>1, <2>2 DEF Known
      <4>2. CASE code[c].st = "NONE" /\ Exists(code'[c].account)
        BY <4>2
      <4>3. CASE code[c].st # "NONE" /\ code'[c].account = code[c].account
        BY <4>3 DEF Known
      <4>4. \/ code'[c] = code[c]
            \/ code[c].st = "NONE" /\ Exists(code'[c].account)
            \/ code[c].st # "NONE" /\ code'[c].account = code[c].account
        BY <2>2, <3>1 DEF CodesStep, CodeRows
      <4>5. QED
        BY <4>1, <4>2, <4>3, <4>4
    <3>3. QED
      BY <2>1, <3>1, <3>2 DEF Exists
  <2>3. ASSUME NEW p \in Procs, h'[p].pc \notin {"idle", "register.create"}
        PROVE  Exists(h[p].account)'
    <3>1. CASE h'[p] = h[p]
      <4>1. h[p].account \in Accounts /\ Exists(h[p].account)
        BY <2>3, <3>1, TypeInvUnfolds DEF Known
      <4>2. QED
        BY <2>1, <3>1, <4>1 DEF Exists
    <3>2. CASE Acted(p, h[p].account) /\ account'[h[p].account].password # None
      BY <2>3, <3>2 DEF Acted, Exists
    <3>3. CASE NewlyAsked(p)
      <4>1. UNCHANGED <<account, code>> /\ Asked(h'[p]) /\ h'[p].account \in Accounts
        BY <3>3, <1>1 DEF Tables
      <4>2. h'[p] \in HandlerRecords /\ Filled(h'[p])
        BY DEF TypeInv, TypeOK
      <4>3. Exists(h'[p].account)
        BY <2>3, <4>1, <4>2 DEF Asked, Known, Filled, WithCode
      <4>4. QED
        BY <4>1, <4>3 DEF Exists
    <3>4. QED
      BY <2>3, <3>1, <3>2, <3>3 DEF HandlersStep, Idle
  <2>4. QED
    BY <2>2, <2>3 DEF Known, AccountsStep, TaskStep, Exists
<1>4. ASSUME NEW q \in Procs, h'[q].account \in inTurn
      PROVE  \/ h[q].account = h'[q].account /\ h[q].pc # "idle"
             \/ \A r \in Procs : h[r].account # h'[q].account
  <2>1. inTurn \subseteq Accounts /\ NoOne \notin Accounts
    BY AccountsAssumption DEF TypeInv, TypeOK
  <2>2. CASE h'[q] = h[q]
    BY <1>4, <2>1, <2>2, TypeInvUnfolds
  <2>3. CASE h'[q] = Idle
    BY <1>4, <2>1, <2>3 DEF Idle
  <2>4. CASE Acted(q, h[q].account)
    <3>1. h'[q].pc # "idle"
      BY <1>4, <2>1, TypeInvUnfolds DEF TypeInv, Filled
    <3>2. QED
      BY <2>4, <3>1 DEF Acted
  <2>5. CASE NewlyAsked(q)
    BY <1>4, <2>5, <1>1 DEF Asked
  <2>6. QED
    BY <2>2, <2>3, <2>4, <2>5 DEF HandlersStep
<1>5. Alone'
  <2> SUFFICES ASSUME NEW p \in Procs, NEW q \in Procs, h'[p].account \in inTurn,
                      h'[q].account = h'[p].account, p # q
               PROVE  FALSE
    BY DEF Alone
  <2>1. CASE h[p].account = h'[p].account /\ h[q].account = h'[q].account
    BY <2>1 DEF Alone
  <2>2. CASE h[p].account # h'[p].account
    <3>1. \A r \in Procs : h[r].account # h'[p].account
      BY <2>2, <1>4
    <3>2. h'[p] # h[p] /\ h'[q] # h[q]
      BY <2>2, <3>1
    <3>3. ~NewlyAsked(p)
      BY <1>1, <3>2
    <3>4. ~NewlyAsked(q)
      BY <1>1, <3>2
    <3>5. h'[p] # Idle
      BY AccountsAssumption DEF Idle, TypeInv, TypeOK
    <3>6. Acted(p, h[p].account)
      BY <3>2, <3>3, <3>5 DEF HandlersStep
    <3>7. h'[p].pc # "idle"
      BY AccountsAssumption, TypeInvUnfolds DEF TypeInv, TypeOK, Filled
    <3>8. QED
      BY <2>2, <3>6, <3>7 DEF Acted
  <2>3. CASE h[q].account # h'[q].account
    <3>1. \A r \in Procs : h[r].account # h'[q].account
      BY <2>3, <1>4
    <3>2. h'[p] # h[p] /\ h'[q] # h[q]
      BY <2>3, <3>1
    <3>3. ~NewlyAsked(q)
      BY <1>1, <3>2
    <3>4. h'[q] # Idle
      BY AccountsAssumption DEF Idle, TypeInv, TypeOK
    <3>5. Acted(q, h[q].account)
      BY <3>2, <3>3, <3>4 DEF HandlersStep
    <3>6. h'[q].pc # "idle"
      BY AccountsAssumption, TypeInvUnfolds DEF TypeInv, TypeOK, Filled
    <3>7. QED
      BY <2>3, <3>5, <3>6 DEF Acted
  <2>4. QED
    BY <2>1, <2>2, <2>3
<1>6. Undisturbed'
  <2> SUFFICES ASSUME NEW p \in Procs, h'[p].account \in inTurn
               PROVE  AsRead(h[p])'
    BY DEF Undisturbed, AsRead
  <2> DEFINE a == h[p].account
             c == h[p].code
  <2>1. CASE Acted(p, h[p].account) \/ h'[p] = Idle
    BY <2>1 DEF Acted, Settled, AsRead, Idle
  <2>2. CASE NewlyAsked(p)
    <3>1. UNCHANGED <<account, code>> /\ Asked(h'[p])
      BY <2>2, <1>1 DEF Tables
    <3>2. QED
      BY <3>1 DEF Asked, AsRead
  <2>3. CASE h'[p] = h[p] /\ ~Acted(p, h[p].account)
    <3>1. /\ a \in Accounts /\ a \in inTurn /\ AsRead(h[p])
          /\ h[p].pc # "idle"
      BY <2>3, <1>4, AccountsAssumption DEF Undisturbed, TypeInv, TypeOK
    <3>2. \A q \in Procs : ~Acted(q, a)
      BY <2>3, <3>1 DEF Acted, Alone
    <3>3. SameLogin(a)
      BY <3>1, <3>2 DEF AccountsStep
    <3>4. ASSUME h[p].pc = "reset.transaction"
          PROVE  code'[c].st \in {"LIVE", "EXPIRED"}
      <4>1. /\ c \in Codes /\ code[c] \in CodeRows /\ h[p].code = c
            /\ code[c].st \in {"LIVE", "EXPIRED"}
        BY <3>1, <3>4, TypeInvUnfolds DEF AsRead, WithCode
      <4>2. code[c].account = a /\ code[c].type = "PASSWORD_RESET"
        BY <3>4, <4>1 DEF Linked, Carries, WithCode, TypeFor
      <4> HIDE DEF a, c
      <4>3. QED
        BY <4>1, <4>2, <3>2 DEF CodesStep, CodeRows
    <3>5. QED
      BY <2>3, <3>1, <3>3, <3>4 DEF AsRead, SameLogin
  <2>4. QED
    BY <2>1, <2>2, <2>3 DEF HandlersStep
<1>7. QED
  BY <1>2, <1>3, <1>5, <1>6

-----------------------------------------------------------------------------
(* Every step has these effects.                                           *)

LEMMA HandlerEffect ==
    ASSUME Together, NEW p \in Procs, h[p].pc # "idle",
           \/ Returned(p)
           \/ \E pc \in Settled : Moved(p, pc) /\ account'[h[p].account].password # None
    PROVE  HandlersStep /\ Acted(p, h[p].account)
  BY DEF Returned, Moved, Others, Acted, HandlersStep, Settled, Idle

LEMMA SameAccounts ==
    ASSUME Together, \A a \in Accounts : SameLogin(a)
    PROVE  AccountsStep
  BY DEF Together, Known, AccountsStep, SameLogin, Exists

LEMMA OneAccount ==
    ASSUME Together, NEW p \in Procs, NEW a \in Accounts, Acted(p, a),
           NEW row, row.password # None, account' = [account EXCEPT ![a] = row]
    PROVE  AccountsStep /\ account'[a] = row
<1>1. account'[a] = row /\ \A b \in Accounts \ {a} : account'[b] = account[b]
  BY TypeInvUnfolds DEF Together
<1>2. QED
  BY <1>1 DEF Together, Known, AccountsStep, SameLogin, Exists

LEMMA SameCodes == code' = code => CodesStep
  BY DEF CodesStep

LEMMA DeletedCodes ==
    ASSUME Together, NEW a \in Accounts, NEW type, DeleteUnused(a, type),
           type = "EMAIL_VERIFY" \/ \E p \in Procs : Acted(p, a)
    PROVE  CodesStep
<1> SUFFICES ASSUME NEW c \in Codes, code'[c] # code[c]
             PROVE  /\ code[c].st \in {"LIVE", "EXPIRED"} /\ code'[c].st = "NONE"
                    /\ code[c].account = a /\ code[c].type = type
  BY DEF CodesStep
<1>1. QED
  BY RowsTyped DEF DeleteUnused, CodesOf

LEMMA CreatedCode ==
    ASSUME Together, NEW a \in Accounts, NEW type, CreateCode(a, type), Exists(a)
    PROVE  CodesStep
<1> PICK c \in Codes :
        /\ code[c].st = "NONE"
        /\ \A q \in Procs : h[q].code # c
        /\ code' = [code EXCEPT ![c] = [st |-> "LIVE", type |-> type, account |-> a]]
  BY DEF CreateCode
<1>1. code'[c] = [st |-> "LIVE", type |-> type, account |-> a]
      /\ \A d \in Codes \ {c} : code'[d] = code[d]
  BY TypeInvUnfolds DEF Together
<1>2. QED
  BY <1>1 DEF CodesStep

LEMMA UsedCode ==
    ASSUME Together, NEW p \in Procs, Carries(h[p]), Acted(p, h[p].account),
           code[h[p].code].st # "NONE",
           code' = [code EXCEPT ![h[p].code].st = "USED"]
    PROVE  CodesStep
<1> DEFINE c == h[p].code
<1>1. c \in Codes /\ code[c].account = h[p].account /\ h[p].code = c
  BY TypeInvUnfolds DEF Together, Linked, Carries
<1> HIDE DEF c
<1>2. code'[c] = [code[c] EXCEPT !.st = "USED"] /\ \A d \in Codes \ {c} : code'[d] = code[d]
  BY <1>1, TypeInvUnfolds DEF Together
<1>3. code[c].st # "NONE"
  BY <1>1
<1>4. QED
  BY <1>1, <1>2, <1>3 DEF CodesStep

LEMMA SameTasks ==
    ASSUME Together, AccountsStep,
           \A a \in Accounts : otpTask'[a] # "none" => otpTask[a] # "none" \/ Exists(a)'
    PROVE  TaskStep
  BY DEF Together, Known, TaskStep, AccountsStep

(* Unpacks the invariant for the handler that takes a step.                *)
LEMMA Actor ==
    ASSUME Together, NEW p \in Procs, h[p].pc \notin {"idle", "register.create"}
    PROVE  /\ h[p].account \in Accounts
           /\ account[h[p].account].password # None
  BY ActorTyped DEF Together, Known, Exists

LEMMA RegisterEffect ==
    ASSUME Together, NEW p \in Procs, RegisterCreate(p)
    PROVE  Effect /\ UNCHANGED inTurn
<1> DEFINE a == h[p].account
<1>1. h[p].pc # "idle" /\ a \in Accounts /\ UNCHANGED <<code, inTurn>>
  BY ActorTyped DEF RegisterCreate, At, Together
<1>2. CASE Exists(a)
  <2>1. UNCHANGED <<account, otpTask>> /\ Returned(p)
    BY <1>2, Returns DEF RegisterCreate, Together
  <2>2. HandlersStep /\ AccountsStep
    BY <1>1, <2>1, HandlerEffect, SameAccounts DEF SameLogin
  <2>3. QED
    BY <1>1, <2>1, <2>2, SameCodes, SameTasks DEF Effect
<1>3. CASE ~Exists(a)
  <2>1. /\ account' = [account EXCEPT ![a] = NewAccount]
        /\ otpTask' = [otpTask EXCEPT ![a] = "deleteMany"]
        /\ Goto(p, "signIn.issue")
    BY <1>3 DEF RegisterCreate
  <2>2. Moved(p, "signIn.issue")
    BY <1>1, <2>1, Moves, TypeInvUnfolds DEF RegisterCreate, At, Together, Issuing
  <2>3. account'[a].password # None
    BY <1>1, <2>1, NewRowTyped, TypeInvUnfolds DEF Together
  <2>4. HandlersStep /\ Acted(p, a)
    BY <1>1, <2>2, <2>3, HandlerEffect DEF Settled
  <2>5. AccountsStep
    BY <1>1, <2>1, <2>4, OneAccount, NewRowTyped
  <2>6. TaskStep
    BY <1>1, <2>1, <2>3, <2>5, SameTasks DEF Exists, Together, TypeInv, TypeOK
  <2>7. QED
    BY <1>1, <2>4, <2>5, <2>6, SameCodes DEF Effect
<1>4. QED
  BY <1>2, <1>3

LEMMA IssueEffect ==
    ASSUME Together, NEW p \in Procs, IssueUpdate(p)
    PROVE  Effect /\ UNCHANGED inTurn
<1> DEFINE a == h[p].account
           row == [account[a] EXCEPT !.refreshToken = Len(tokens[a]) + 1]
<1>1. /\ h[p].pc \notin {"idle", "register.create"}
      /\ account' = [account EXCEPT ![a] = row]
      /\ UNCHANGED <<code, inTurn, otpTask>>
  BY DEF IssueUpdate, At
<1>2. a \in Accounts /\ account[a].password # None /\ account[a] \in AccountRows
  BY <1>1, Actor, TypeInvUnfolds DEF Together
<1>3. HandlersStep /\ Acted(p, a)
  BY <1>1, IssueKeeps, HandlerEffect DEF Together
<1>4. row.password # None
  BY <1>2 DEF AccountRows
<1> HIDE DEF row, a
<1>5. AccountsStep
  BY <1>1, <1>2, <1>3, <1>4, OneAccount
<1>6. QED
  BY <1>1, <1>3, <1>5, SameCodes, SameTasks DEF Effect

LEMMA LogoutEffect ==
    ASSUME Together, NEW p \in Procs, LogoutUpdate(p)
    PROVE  Effect /\ UNCHANGED inTurn
<1> DEFINE a == h[p].account
           row == [account[a] EXCEPT !.refreshToken = NoToken]
<1>1. /\ h[p].pc \notin {"idle", "register.create"}
      /\ account' = [account EXCEPT ![a] = row]
      /\ UNCHANGED <<code, inTurn, otpTask>>
  BY DEF LogoutUpdate, At
<1>2. a \in Accounts /\ account[a].password # None /\ account[a] \in AccountRows
  BY <1>1, Actor, TypeInvUnfolds DEF Together
<1>3. HandlersStep /\ Acted(p, a)
  BY <1>1, LogoutKeeps, HandlerEffect DEF Together
<1>4. row.password # None
  BY <1>2 DEF AccountRows
<1> HIDE DEF row, a
<1>5. AccountsStep
  BY <1>1, <1>2, <1>3, <1>4, OneAccount
<1>6. QED
  BY <1>1, <1>3, <1>5, SameCodes, SameTasks DEF Effect

LEMMA ChangeEffect ==
    ASSUME Together, NEW p \in Procs, ChangeUpdate(p)
    PROVE  Effect /\ UNCHANGED inTurn
<1> DEFINE a == h[p].account
           row == NewPassword(account[a], h[p].with + 1)
<1>1. /\ h[p].pc \notin {"idle", "register.create"} /\ h[p].pc = "change.update"
      /\ account' = [account EXCEPT ![a] = row]
      /\ UNCHANGED <<code, inTurn, otpTask>>
  BY DEF ChangeUpdate, At
<1>2. a \in Accounts /\ account[a] \in AccountRows
  BY <1>1, Actor, TypeInvUnfolds DEF Together
<1>3. HandlersStep /\ Acted(p, a)
  BY <1>1, ChangeKeeps, HandlerEffect DEF Together
<1>4. h[p].with + 1 \in 0 .. MaxPasswords
  BY <1>1, AccountsAssumption, TypeInvUnfolds DEF None, HandlerRecords, Together
<1>5. row.password # None
  BY <1>2, <1>4, NewPasswordTyped
<1> HIDE DEF row, a
<1>6. AccountsStep
  BY <1>1, <1>2, <1>3, <1>5, OneAccount
<1>7. QED
  BY <1>1, <1>3, <1>6, SameCodes, SameTasks DEF Effect

LEMMA CodeCallEffect ==
    ASSUME Together, NEW p \in Procs,
           ForgotDeleteMany(p) \/ ForgotCreate(p) \/ OtpDeleteMany(p) \/ OtpCreate(p)
    PROVE  Effect /\ UNCHANGED inTurn
<1> DEFINE a == h[p].account
<1>1. /\ h[p].pc \notin {"idle", "register.create"}
      /\ UNCHANGED <<account, tokens, signIns, resets, inTurn, otpTask>>
  BY DEF ForgotDeleteMany, ForgotCreate, OtpDeleteMany, OtpCreate, At
<1>2. a \in Accounts /\ account[a].password # None
  BY <1>1, Actor
<1>3. HandlersStep /\ Acted(p, a)
  BY <1>1, <1>2, CodeCallKeeps, HandlerEffect DEF Settled, Together
<1>4. CodesStep
  BY <1>2, <1>3, DeletedCodes, CreatedCode
     DEF ForgotDeleteMany, ForgotCreate, OtpDeleteMany, OtpCreate, Exists
<1>5. AccountsStep
  BY <1>1, SameAccounts DEF SameLogin
<1>6. QED
  BY <1>1, <1>3, <1>4, <1>5, SameTasks DEF Effect

LEMMA ResetEffect ==
    ASSUME Together, NEW p \in Procs, ResetTransaction(p)
    PROVE  Effect /\ UNCHANGED inTurn
<1> DEFINE a == h[p].account
           row == NewPassword(account[a], account[a].password + 1)
<1>1. /\ h[p].pc \notin {"idle", "register.create"} /\ Carries(h[p])
      /\ UNCHANGED <<inTurn, otpTask>>
  BY DEF ResetTransaction, At, Carries, WithCode
<1>2. a \in Accounts /\ account[a] \in AccountRows /\ account[a].password # None
  BY <1>1, Actor, TypeInvUnfolds DEF Together
<1>3. HandlersStep /\ Acted(p, a)
  BY <1>1, ResetKeeps, HandlerEffect DEF Together
<1>4. CASE code[h[p].code].st = "NONE"
  <2>1. UNCHANGED <<account, code>>
    BY <1>4 DEF ResetTransaction
  <2>2. AccountsStep
    BY <2>1, SameAccounts DEF SameLogin
  <2>3. QED
    BY <1>1, <1>3, <2>1, <2>2, SameCodes, SameTasks DEF Effect
<1>5. CASE code[h[p].code].st # "NONE"
  <2>1. /\ code' = [code EXCEPT ![h[p].code].st = "USED"]
        /\ account' = [account EXCEPT ![a] = row]
        /\ account[a].password < MaxPasswords
    BY <1>5 DEF ResetTransaction
  <2>2. CodesStep
    BY <1>1, <1>3, <1>5, <2>1, UsedCode
  <2>3. account[a].password + 1 \in 0 .. MaxPasswords
    BY <1>2, <2>1, AccountsAssumption DEF AccountRows, None
  <2>4. row.password # None
    BY <1>2, <2>3, NewPasswordTyped
  <2> HIDE DEF row, a
  <2>5. AccountsStep
    BY <1>2, <1>3, <2>1, <2>4, OneAccount
  <2>6. QED
    BY <1>1, <1>3, <2>2, <2>5, SameTasks DEF Effect
<1>6. QED
  BY <1>4, <1>5

LEMMA VerifyEffect ==
    ASSUME Together, NEW p \in Procs, VerifyTransaction(p)
    PROVE  Effect /\ UNCHANGED inTurn
<1> DEFINE a == h[p].account
           row == [account[a] EXCEPT !.isEmailVerified = TRUE]
<1>1. /\ h[p].pc \notin {"idle", "register.create"} /\ Carries(h[p])
      /\ UNCHANGED <<inTurn, otpTask>>
  BY DEF VerifyTransaction, At, Carries, WithCode
<1>2. a \in Accounts /\ account[a] \in AccountRows /\ account[a].password # None
  BY <1>1, Actor, TypeInvUnfolds DEF Together
<1>3. HandlersStep /\ Acted(p, a)
  BY <1>1, VerifyKeeps, HandlerEffect DEF Together
<1>4. CASE code[h[p].code].st = "NONE"
  <2>1. UNCHANGED <<account, code>>
    BY <1>4 DEF VerifyTransaction
  <2>2. AccountsStep
    BY <2>1, SameAccounts DEF SameLogin
  <2>3. QED
    BY <1>1, <1>3, <2>1, <2>2, SameCodes, SameTasks DEF Effect
<1>5. CASE code[h[p].code].st # "NONE"
  <2>1. /\ code' = [code EXCEPT ![h[p].code].st = "USED"]
        /\ account' = [account EXCEPT ![a] = row]
    BY <1>5 DEF VerifyTransaction
  <2>2. CodesStep
    BY <1>1, <1>3, <1>5, <2>1, UsedCode
  <2>3. row.password # None
    BY <1>2 DEF AccountRows
  <2> HIDE DEF row, a
  <2>4. AccountsStep
    BY <1>2, <1>3, <2>1, <2>3, OneAccount
  <2>5. QED
    BY <1>1, <1>3, <2>2, <2>4, SameTasks DEF Effect
<1>6. QED
  BY <1>4, <1>5

LEMMA OtherEffect ==
    ASSUME Together,
           \/ \E a \in Accounts : OtpTaskDeletes(a) \/ OtpTaskCreates(a) \/ OtpTaskFails(a)
           \/ \E a \in Accounts, b \in BOOLEAN : SetActive(a, b)
           \/ \E c \in Codes : CodeExpires(c)
           \/ UNCHANGED vars
    PROVE  Effect /\ UNCHANGED inTurn
<1>1. UNCHANGED <<h, inTurn>>
  BY DEF OtpTaskDeletes, OtpTaskCreates, OtpTaskFails, SetActive, CodeExpires, vars
<1>2. HandlersStep
  BY <1>1 DEF HandlersStep
<1>3. \A a \in Accounts : SameLogin(a)
  <2>1. CASE UNCHANGED account
    BY <2>1 DEF SameLogin
  <2>2. ASSUME NEW a \in Accounts, NEW b \in BOOLEAN, SetActive(a, b)
        PROVE  \A d \in Accounts : SameLogin(d)
    <3>1. account' = [account EXCEPT ![a].isActive = b]
      BY <2>2 DEF SetActive
    <3>2. \A d \in Accounts : account[d] \in AccountRows
      BY TypeInvUnfolds DEF Together
    <3>3. QED
      BY <3>1, <3>2, TypeInvUnfolds DEF SameLogin, AccountRows, Together
  <2>3. QED
    BY <2>1, <2>2 DEF OtpTaskDeletes, OtpTaskCreates, OtpTaskFails, CodeExpires, vars
<1>4. AccountsStep
  BY <1>3, SameAccounts
<1>5. \A a \in Accounts : otpTask'[a] # "none" => otpTask[a] # "none"
  BY DEF OtpTaskDeletes, OtpTaskCreates, OtpTaskFails, SetActive, CodeExpires, vars,
         Together, TypeInv, TypeOK
<1>6. CodesStep
  <2>1. CASE UNCHANGED code
    BY <2>1, SameCodes
  <2>2. ASSUME NEW a \in Accounts, OtpTaskDeletes(a) \/ OtpTaskCreates(a)
        PROVE  CodesStep
    <3>1. Exists(a)
      BY <2>2 DEF OtpTaskDeletes, OtpTaskCreates, Together, Known
    <3>2. QED
      BY <2>2, <3>1, DeletedCodes, CreatedCode DEF OtpTaskDeletes, OtpTaskCreates
  <2>3. ASSUME NEW c \in Codes, CodeExpires(c)
        PROVE  CodesStep
    <3>1. code[c].st = "LIVE" /\ code' = [code EXCEPT ![c].st = "EXPIRED"]
      BY <2>3 DEF CodeExpires
    <3>2. code'[c] = [code[c] EXCEPT !.st = "EXPIRED"]
          /\ \A d \in Codes \ {c} : code'[d] = code[d]
      BY <3>1, TypeInvUnfolds DEF Together
    <3>3. QED
      BY <3>1, <3>2 DEF CodesStep
  <2>4. QED
    BY <2>1, <2>2, <2>3 DEF OtpTaskFails, SetActive, vars
<1>7. QED
  BY <1>1, <1>2, <1>4, <1>5, <1>6, SameTasks DEF Effect

LEMMA StepHasEffect == Together /\ [Next]_vars => Effect /\ UNCHANGED inTurn
<1> SUFFICES ASSUME Together, [Next]_vars
             PROVE  Effect /\ UNCHANGED inTurn
  OBVIOUS
<1>1. ASSUME NEW p \in Procs, HandlerStep(p)
      PROVE  Effect /\ UNCHANGED inTurn
  BY <1>1, RegisterEffect, IssueEffect, LogoutEffect, ChangeEffect, CodeCallEffect,
     ResetEffect, VerifyEffect
     DEF HandlerStep
<1>2. ASSUME NEW p \in Procs, NewRequest(p)
      PROVE  Effect /\ UNCHANGED inTurn
  <2>1. NewlyAsked(p) /\ UNCHANGED Tables
    BY <1>2, NewRequestAsks DEF Together, NewlyAsked
  <2>2. UNCHANGED <<account, code, inTurn, otpTask>>
    BY <2>1 DEF Tables
  <2>3. HandlersStep
    BY <2>1 DEF NewlyAsked, HandlersStep
  <2>4. AccountsStep
    BY <2>2, SameAccounts DEF SameLogin
  <2>5. QED
    BY <2>2, <2>3, <2>4, SameCodes, SameTasks DEF Effect
<1>3. ASSUME NEW p \in Procs, HandlerFails(p)
      PROVE  Effect /\ UNCHANGED inTurn
  <2>1. /\ h[p].pc # "idle" /\ Return(p)
        /\ UNCHANGED <<account, code, inTurn, otpTask>>
    BY <1>3 DEF HandlerFails
  <2>2. HandlersStep
    BY <2>1, Returns, HandlerEffect DEF Together
  <2>3. AccountsStep
    BY <2>1, SameAccounts DEF SameLogin
  <2>4. QED
    BY <2>1, <2>2, <2>3, SameCodes, SameTasks DEF Effect
<1>4. QED
  BY <1>1, <1>2, <1>3, OtherEffect DEF Next

LEMMA StepTogether == Together /\ [Next]_vars => Together'
  BY StepKeeps, StepHasEffect, EffectKeepsTogether DEF Together

LEMMA AlwaysTogether == Spec => []Together
  BY InitTogether, StepTogether, PTL DEF Spec

-----------------------------------------------------------------------------
(* A verified address had its code used.                                   *)

LEMMA UsedStays ==
    ASSUME Together, CodesStep, NEW c \in Codes, code[c].st = "USED"
    PROVE  /\ code'[c].st = "USED"
           /\ code'[c].account = code[c].account /\ code'[c].type = code[c].type
<1>1. code[c] \in CodeRows
  BY TypeInvUnfolds DEF Together
<1>2. QED
  BY <1>1 DEF CodesStep, CodeRows

NewlyVerified(a) ==
    account'[a].isEmailVerified =>
        account[a].isEmailVerified \/ CodesOf(a, "EMAIL_VERIFY", {"USED"})' # {}

LEMMA RowVerified ==
    ASSUME Together, NEW a \in Accounts, NEW row, account' = [account EXCEPT ![a] = row],
           row.isEmailVerified => account[a].isEmailVerified
    PROVE  \A b \in Accounts : NewlyVerified(b)
<1>1. account'[a] = row /\ \A b \in Accounts \ {a} : account'[b] = account[b]
  BY TypeInvUnfolds DEF Together
<1>2. QED
  BY <1>1 DEF NewlyVerified

LEMMA VerifyVerifies ==
    ASSUME Together, NEW p \in Procs, VerifyTransaction(p)
    PROVE  \A b \in Accounts : NewlyVerified(b)
<1>0. h[p].pc = "verify.transaction" /\ h[p].account \in Accounts /\ h[p].code \in Codes
  BY ActorTyped, TypeInvUnfolds DEF VerifyTransaction, At, WithCode, Together
<1>a. PICK a \in Accounts, c \in Codes : h[p].account = a /\ h[p].code = c
  BY <1>0
<1>1. code[c] \in CodeRows
  BY TypeInvUnfolds DEF Together
<1>2. CASE code[c].st = "NONE"
  BY <1>2, <1>a DEF VerifyTransaction, NewlyVerified
<1>3. CASE code[c].st # "NONE"
  <2>1. /\ code' = [code EXCEPT ![c].st = "USED"]
        /\ account' = [account EXCEPT ![a].isEmailVerified = TRUE]
    BY <1>3, <1>a DEF VerifyTransaction
  <2>2. code[c].account = a /\ code[c].type = "EMAIL_VERIFY"
    BY <1>0, <1>a, <1>3 DEF Together, Linked, Carries, WithCode, TypeFor
  <2>3. code'[c].st = "USED" /\ code'[c].account = a /\ code'[c].type = "EMAIL_VERIFY"
    BY <1>1, <2>1, <2>2, TypeInvUnfolds DEF CodeRows, Together
  <2>4. c \in CodesOf(a, "EMAIL_VERIFY", {"USED"})'
    BY <1>1, <2>3 DEF CodesOf
  <2>5. \A b \in Accounts \ {a} : account'[b] = account[b]
    BY <1>1, <2>1, TypeInvUnfolds DEF Together
  <2>6. QED
    BY <2>4, <2>5 DEF NewlyVerified
<1>4. QED
  BY <1>2, <1>3

LEMMA StepVerifies ==
    ASSUME Together, [Next]_vars
    PROVE  \A b \in Accounts : NewlyVerified(b)
<1>1. CASE UNCHANGED account
  BY <1>1 DEF NewlyVerified
<1>2. ASSUME NEW p \in Procs, RegisterCreate(p)
      PROVE  \A b \in Accounts : NewlyVerified(b)
  <2> DEFINE a == h[p].account
  <2>1. a \in Accounts
    BY <1>2, ActorTyped DEF RegisterCreate, At, Together
  <2>2. UNCHANGED account \/ account' = [account EXCEPT ![a] = NewAccount]
    BY <1>2 DEF RegisterCreate
  <2>3. QED
    BY <1>1, <2>1, <2>2, RowVerified, NewRowTyped
<1>3. ASSUME NEW p \in Procs, IssueUpdate(p)
      PROVE  \A b \in Accounts : NewlyVerified(b)
  <2> DEFINE a == h[p].account
             row == [account[a] EXCEPT !.refreshToken = Len(tokens[a]) + 1]
  <2>1. a \in Accounts /\ account[a] \in AccountRows
    BY <1>3, ActorTyped DEF IssueUpdate, At, Together
  <2>2. account' = [account EXCEPT ![a] = row]
    BY <1>3 DEF IssueUpdate
  <2>3. row.isEmailVerified = account[a].isEmailVerified
    BY <2>1 DEF AccountRows
  <2> HIDE DEF row
  <2>4. QED
    BY <2>1, <2>2, <2>3, RowVerified
<1>4. ASSUME NEW p \in Procs, LogoutUpdate(p)
      PROVE  \A b \in Accounts : NewlyVerified(b)
  <2> DEFINE a == h[p].account
             row == [account[a] EXCEPT !.refreshToken = NoToken]
  <2>1. a \in Accounts /\ account[a] \in AccountRows
    BY <1>4, ActorTyped DEF LogoutUpdate, At, Together
  <2>2. account' = [account EXCEPT ![a] = row]
    BY <1>4 DEF LogoutUpdate
  <2>3. row.isEmailVerified = account[a].isEmailVerified
    BY <2>1 DEF AccountRows
  <2> HIDE DEF row
  <2>4. QED
    BY <2>1, <2>2, <2>3, RowVerified
<1>5. ASSUME NEW p \in Procs, ChangeUpdate(p) \/ ResetTransaction(p)
      PROVE  \A b \in Accounts : NewlyVerified(b)
  <2> DEFINE a == h[p].account
  <2>1. a \in Accounts /\ account[a] \in AccountRows
    BY <1>5, ActorTyped DEF ChangeUpdate, ResetTransaction, At, Together
  <2>2. UNCHANGED account
        \/ \E pw : account' = [account EXCEPT ![a] = NewPassword(account[a], pw)]
    BY <1>5 DEF ChangeUpdate, ResetTransaction
  <2>3. \A pw : NewPassword(account[a], pw).isEmailVerified = account[a].isEmailVerified
    BY <2>1 DEF NewPassword, AccountRows
  <2> HIDE DEF a
  <2>4. QED
    BY <1>1, <2>1, <2>2, <2>3, RowVerified
<1>6. ASSUME NEW a \in Accounts, NEW b \in BOOLEAN, SetActive(a, b)
      PROVE  \A d \in Accounts : NewlyVerified(d)
  <2> DEFINE row == [account[a] EXCEPT !.isActive = b]
  <2>1. account' = [account EXCEPT ![a] = row] /\ account[a] \in AccountRows
    BY <1>6, TypeInvUnfolds DEF SetActive, Together
  <2>2. row.isEmailVerified = account[a].isEmailVerified
    BY <2>1 DEF AccountRows
  <2> HIDE DEF row
  <2>3. QED
    BY <2>1, <2>2, RowVerified
<1>7. ASSUME NEW p \in Procs, NewRequest(p)
      PROVE  UNCHANGED account
  BY <1>7, NewRequestAsks DEF Together, NewlyAsked, Tables
<1>8. QED
  BY <1>1, <1>2, <1>3, <1>4, <1>5, <1>6, <1>7, VerifyVerifies
     DEF Next, HandlerStep, HandlerFails, CodeExpires, OtpTaskDeletes, OtpTaskCreates,
         OtpTaskFails, ForgotDeleteMany, ForgotCreate, OtpDeleteMany, OtpCreate, vars

(* An address counts as verified only if one of the codes sent to it was   *)
(* used: the codes that verifyEmail's transaction can still mark are the   *)
(* account's own, and a used code is never deleted.                        *)
THEOREM VerifiedAlways == Spec => []VerifiedByCode
<1>1. Init => VerifiedByCode
  BY RowsTyped DEF Init, VerifiedByCode
<1>2. Together /\ VerifiedByCode /\ [Next]_vars => VerifiedByCode'
  <2> SUFFICES ASSUME Together, VerifiedByCode, [Next]_vars, NEW a \in Accounts,
                      account'[a].isEmailVerified
               PROVE  CodesOf(a, "EMAIL_VERIFY", {"USED"})' # {}
    BY DEF VerifiedByCode
  <2>1. CASE ~account[a].isEmailVerified
    BY <2>1, StepVerifies DEF NewlyVerified
  <2>2. CASE account[a].isEmailVerified
    <3>1. PICK c \in Codes : /\ code[c].account = a /\ code[c].type = "EMAIL_VERIFY"
                             /\ code[c].st = "USED"
      BY <2>2 DEF VerifiedByCode, CodesOf
    <3>2. CodesStep
      BY StepHasEffect DEF Effect
    <3>3. QED
      BY <3>1, <3>2, UsedStays DEF CodesOf
  <2>3. QED
    BY <2>1, <2>2
<1>3. QED
  BY <1>1, <1>2, AlwaysTogether, PTL DEF Spec

-----------------------------------------------------------------------------
(* A link works once where requests come one at a time.                    *)

UsedLinks(a) == CodesOf(a, "PASSWORD_RESET", {"USED"})

(* A step uses no link but the one a reset.transaction carries.            *)
LEMMA LinksKept ==
    ASSUME Together, CodesStep, NEW a \in Accounts,
           \/ UNCHANGED code
           \/ \A p \in Procs : h[p].pc = "reset.transaction" /\ h[p].account = a
                                   => h'[p].pc \notin Settled
    PROVE  UsedLinks(a)' = UsedLinks(a)
<1>1. ASSUME NEW c \in Codes, c \in UsedLinks(a)
      PROVE  c \in UsedLinks(a)'
  BY <1>1, UsedStays DEF UsedLinks, CodesOf
<1>2. ASSUME NEW c \in Codes, c \in UsedLinks(a)', c \notin UsedLinks(a)
      PROVE  FALSE
  <2>1. /\ code[c] \in CodeRows
        /\ code'[c].st = "USED" /\ code'[c].account = a /\ code'[c].type = "PASSWORD_RESET"
        /\ ~(code[c].st = "USED" /\ code[c].account = a /\ code[c].type = "PASSWORD_RESET")
    BY <1>2, TypeInvUnfolds DEF UsedLinks, CodesOf, Together
  <2>2. /\ code[c].st # "NONE"
        /\ code[c].account = a /\ code[c].type = "PASSWORD_RESET"
        /\ \E p \in Procs : Acted(p, code[c].account) /\ Carries(h[p]) /\ h[p].code = c
    BY <2>1 DEF CodesStep, CodeRows
  <2>3. PICK p \in Procs : Acted(p, a) /\ Carries(h[p]) /\ h[p].code = c
    BY <2>2
  <2>4. TypeFor(h[p]) = "PASSWORD_RESET"
    BY <2>2, <2>3 DEF Together, Linked
  <2>5. h[p].pc = "reset.transaction"
    BY <2>3, <2>4 DEF Carries, WithCode, TypeFor
  <2>6. QED
    BY <2>1, <2>3, <2>5 DEF Acted
<1>3. QED
  BY <1>1, <1>2 DEF UsedLinks, CodesOf

LEMMA ResetUsesLink ==
    ASSUME Together, NEW p \in Procs, ResetTransaction(p), NEW a \in inTurn, h[p].account = a
    PROVE  /\ h[p].code \in Codes /\ h[p].code \notin UsedLinks(a)
           /\ UsedLinks(a)' = UsedLinks(a) \cup {h[p].code}
           /\ resets' = [resets EXCEPT ![a] = @ + 1]
           /\ account[a].password < MaxPasswords
           /\ account' = [account EXCEPT ![a] = NewPassword(@, account[a].password + 1)]
<1>0. h[p].pc = "reset.transaction" /\ a \in Accounts /\ h[p].code \in Codes
  BY ActorTyped, TypeInvUnfolds DEF ResetTransaction, At, WithCode, Together
<1>a. PICK c \in Codes : h[p].code = c
  BY <1>0
<1>1. code[c] \in CodeRows
  BY TypeInvUnfolds DEF Together
<1>2. code[c].st \in {"LIVE", "EXPIRED"}
  BY <1>0, <1>a DEF Together, Undisturbed, AsRead
<1>3. code[c].account = a /\ code[c].type = "PASSWORD_RESET"
  BY <1>0, <1>a, <1>2 DEF Together, Linked, Carries, WithCode, TypeFor
<1>4. /\ code' = [code EXCEPT ![c].st = "USED"]
      /\ resets' = [resets EXCEPT ![a] = @ + 1]
      /\ account[a].password < MaxPasswords
      /\ account' = [account EXCEPT ![a] = NewPassword(@, account[a].password + 1)]
  BY <1>2, <1>a DEF ResetTransaction
<1>5. /\ code'[c].st = "USED" /\ code'[c].account = a /\ code'[c].type = "PASSWORD_RESET"
      /\ \A d \in Codes \ {c} : code'[d] = code[d]
  BY <1>1, <1>3, <1>4, TypeInvUnfolds DEF CodeRows, Together
<1>6. UsedLinks(a)' = UsedLinks(a) \cup {c} /\ c \notin UsedLinks(a)
  BY <1>2, <1>5 DEF UsedLinks, CodesOf
<1>7. QED
  BY <1>a, <1>4, <1>6

(* Any other step leaves the links of an account and their count alone.    *)
LEMMA OthersKeepLinks ==
    ASSUME Together, [Next]_vars, NEW a \in Accounts,
           ~ \E p \in Procs : ResetTransaction(p) /\ h[p].account = a
    PROVE  resets'[a] = resets[a] /\ UsedLinks(a)' = UsedLinks(a)
<1> DEFINE Spared == \A p \in Procs : h[p].pc = "reset.transaction" /\ h[p].account = a
                                          => h'[p].pc \notin Settled
<1>1. CodesStep
  BY StepHasEffect DEF Effect
<1>2. ASSUME NEW q \in Procs, Others(q), h[q].pc # "reset.transaction" \/ h[q].account # a
      PROVE  Spared
  BY <1>2 DEF Others, Settled
<1>3. ASSUME NEW q \in Procs, HandlerStep(q)
      PROVE  resets'[a] = resets[a] /\ (UNCHANGED code \/ Spared)
  <2>1. CASE RegisterCreate(q) \/ IssueUpdate(q) \/ LogoutUpdate(q) \/ ChangeUpdate(q)
    BY <2>1 DEF RegisterCreate, IssueUpdate, LogoutUpdate, ChangeUpdate
  <2>2. CASE ForgotDeleteMany(q) \/ ForgotCreate(q) \/ OtpDeleteMany(q) \/ OtpCreate(q)
    <3>1. Others(q)
      BY <2>2, CodeCallKeeps DEF Returned, Moved, Together
    <3>2. h[q].pc # "reset.transaction" /\ UNCHANGED resets
      BY <2>2 DEF ForgotDeleteMany, ForgotCreate, OtpDeleteMany, OtpCreate, At
    <3>3. QED
      BY <3>1, <3>2, <1>2
  <2>3. CASE VerifyTransaction(q)
    <3>1. Others(q)
      BY <2>3, VerifyKeeps DEF Returned, Together
    <3>2. h[q].pc # "reset.transaction" /\ UNCHANGED resets
      BY <2>3 DEF VerifyTransaction, At
    <3>3. QED
      BY <3>1, <3>2, <1>2
  <2>4. CASE ResetTransaction(q)
    <3>1. Others(q)
      BY <2>4, ResetKeeps DEF Returned, Together
    <3>2. h[q].account # a
      BY <2>4
    <3>3. resets'[a] = resets[a]
      BY <2>4, <3>2 DEF ResetTransaction, Together, TypeInv, TypeOK
    <3>4. QED
      BY <3>1, <3>2, <3>3, <1>2
  <2>5. QED
    BY <1>3, <2>1, <2>2, <2>3, <2>4 DEF HandlerStep
<1>4. ASSUME NEW q \in Procs, NewRequest(q) \/ HandlerFails(q)
      PROVE  UNCHANGED <<code, resets>>
  BY <1>4, NewRequestAsks DEF Together, NewlyAsked, Tables, HandlerFails
<1>5. ASSUME UNCHANGED <<resets, h>>
      PROVE  resets'[a] = resets[a] /\ Spared
  BY <1>5 DEF Settled
<1>6. resets'[a] = resets[a] /\ (UNCHANGED code \/ Spared)
  <2> HIDE DEF Spared
  <2>1. QED
    BY <1>3, <1>4, <1>5 DEF Next, OtpTaskDeletes, OtpTaskCreates, OtpTaskFails,
                            SetActive, CodeExpires, vars
<1>7. QED
  BY <1>1, <1>6, LinksKept

(* A link of forgotPassword replaces the password once, as long as the     *)
(* account's requests do not overlap: nothing comes between the search     *)
(* that finds it unused and the transaction that marks it.                 *)
THEOREM LinkAlwaysWorksOnce == Spec => []LinkWorksOnce
<1>1. Init => LinkWorksOnce
  <2> SUFFICES ASSUME Init, NEW a \in inTurn
               PROVE  resets[a] = Cardinality(UsedLinks(a))
    BY DEF LinkWorksOnce, UsedLinks
  <2>1. a \in Accounts /\ UsedLinks(a) = {}
    BY RowsTyped DEF Init, UsedLinks, CodesOf
  <2>2. QED
    BY <2>1, FS_EmptySet DEF Init
<1>2. Together /\ LinkWorksOnce /\ [Next]_vars => LinkWorksOnce'
  <2> SUFFICES ASSUME Together, LinkWorksOnce, [Next]_vars, NEW a \in inTurn
               PROVE  resets'[a] = Cardinality(UsedLinks(a)')
    BY StepHasEffect DEF LinkWorksOnce, UsedLinks
  <2>1. /\ a \in Accounts /\ resets[a] = Cardinality(UsedLinks(a))
        /\ resets[a] \in Nat /\ IsFiniteSet(UsedLinks(a))
    <3>1. a \in Accounts /\ resets[a] = Cardinality(UsedLinks(a))
      BY DEF Together, TypeInv, TypeOK, LinkWorksOnce, UsedLinks
    <3>2. UsedLinks(a) \subseteq Codes
      BY DEF UsedLinks, CodesOf
    <3>3. QED
      BY <3>1, <3>2, AccountsAssumption, FS_Subset DEF Together, TypeInv, TypeOK
  <2>2. ASSUME NEW p \in Procs, ResetTransaction(p), h[p].account = a
        PROVE  resets'[a] = Cardinality(UsedLinks(a)')
    <3>1. UsedLinks(a)' = UsedLinks(a) \cup {h[p].code} /\ h[p].code \notin UsedLinks(a)
      BY <2>2, ResetUsesLink
    <3>2. resets' = [resets EXCEPT ![a] = @ + 1]
      BY <2>2, ResetUsesLink
    <3>3. resets'[a] = resets[a] + 1
      BY <2>1, <3>2 DEF Together, TypeInv, TypeOK
    <3>4. QED
      BY <2>1, <3>1, <3>3, FS_AddElement
  <2>3. QED
    BY <2>1, <2>2, OthersKeepLinks
<1>3. QED
  BY <1>1, <1>2, AlwaysTogether, PTL DEF Spec

-----------------------------------------------------------------------------
(* The handlers of an account whose requests come in turn implement        *)
(* SessionLife.                                                            *)

pw == [a \in Accounts |-> IF a \in inTurn THEN account[a].password ELSE None]
open == [a \in Accounts |-> a \in inTurn /\ account[a].refreshToken # NoToken]
opened == [a \in Accounts |-> IF a \in inTurn THEN signIns[a] ELSE 0]

(* A step that leaves the logins alone is none of SessionLife.             *)
LEMMA NoLogin ==
    ASSUME \A a \in inTurn : SameLogin(a) /\ signIns'[a] = signIns[a], UNCHANGED inTurn
    PROVE  UNCHANGED <<pw, open, opened>>
<1>1. UNCHANGED pw
  BY DEF pw, SameLogin
<1>2. UNCHANGED open
  BY DEF open, SameLogin
<1>3. UNCHANGED opened
  BY DEF opened
<1>4. QED
  BY <1>1, <1>2, <1>3

(* One that writes the row of an account in turn changes its entries.      *)
LEMMA OneLogin ==
    ASSUME Together, NEW a \in inTurn, UNCHANGED inTurn,
           \A b \in Accounts \ {a} : SameLogin(b) /\ signIns'[b] = signIns[b]
    PROVE  /\ pw' = [pw EXCEPT ![a] = account'[a].password] /\ pw[a] = account[a].password
           /\ account'[a].refreshToken = NoToken => open' = [open EXCEPT ![a] = FALSE]
           /\ account'[a].refreshToken # NoToken => open' = [open EXCEPT ![a] = TRUE]
           /\ opened' = [opened EXCEPT ![a] = signIns'[a]] /\ opened[a] = signIns[a]
<1>1. a \in Accounts
  BY DEF Together, TypeInv, TypeOK
<1>2. pw' = [pw EXCEPT ![a] = account'[a].password]
  <2> DEFINE to == account'[a].password
  <2>1. \A b \in Accounts : pw'[b] = IF b = a THEN to ELSE pw[b]
    BY <1>1 DEF pw, SameLogin
  <2> HIDE DEF to
  <2>2. pw' = [pw EXCEPT ![a] = to]
    BY <2>1 DEF pw
  <2>3. QED
    BY <2>2 DEF to
<1>3. /\ account'[a].refreshToken = NoToken => open' = [open EXCEPT ![a] = FALSE]
      /\ account'[a].refreshToken # NoToken => open' = [open EXCEPT ![a] = TRUE]
  <2>1. \A b \in Accounts \ {a} : open'[b] = open[b]
    BY DEF open, SameLogin
  <2>2. (account'[a].refreshToken = NoToken => open'[a] = FALSE)
        /\ (account'[a].refreshToken # NoToken => open'[a] = TRUE)
    BY <1>1 DEF open
  <2>3. QED
    BY <2>1, <2>2 DEF open
<1>4. opened' = [opened EXCEPT ![a] = signIns'[a]]
  BY <1>1 DEF opened
<1>5. QED
  BY <1>1, <1>2, <1>3, <1>4 DEF pw, opened

(* The row of one account is written.                                      *)
LEMMA RowWritten ==
    ASSUME Together, NEW a \in Accounts, NEW row, NEW n,
           account' = [account EXCEPT ![a] = row], signIns' = [signIns EXCEPT ![a] = n]
    PROVE  /\ account'[a] = row /\ signIns'[a] = n
           /\ \A b \in Accounts \ {a} : SameLogin(b) /\ signIns'[b] = signIns[b]
  BY DEF Together, TypeInv, TypeOK, SameLogin

LEMMA OutsideLogin ==
    ASSUME Together, NEW a \in Accounts \ inTurn, NEW row, NEW n, UNCHANGED inTurn,
           account' = [account EXCEPT ![a] = row], signIns' = [signIns EXCEPT ![a] = n]
    PROVE  UNCHANGED <<pw, open, opened>>
<1>1. \A b \in Accounts \ {a} : account'[b] = account[b] /\ signIns'[b] = signIns[b]
  BY DEF Together, TypeInv, TypeOK
<1>2. \A b \in inTurn : SameLogin(b) /\ signIns'[b] = signIns[b]
  BY <1>1 DEF SameLogin, Together, TypeInv, TypeOK
<1>3. QED
  BY <1>2, NoLogin

LifeStep == Sessions!LifeNext \/ UNCHANGED <<pw, open, opened>>

LEMMA SameSignIns ==
    ASSUME Together, NEW a \in Accounts, UNCHANGED signIns
    PROVE  signIns' = [signIns EXCEPT ![a] = signIns[a]]
  BY DEF Together, TypeInv, TypeOK

LEMMA RegisterLife ==
    ASSUME Together, NEW p \in Procs, RegisterCreate(p)
    PROVE  LifeStep
<1>1. h[p].account \in Accounts /\ UNCHANGED <<signIns, inTurn>>
  BY ActorTyped DEF RegisterCreate, At, Together
<1>2. PICK a \in Accounts : h[p].account = a
  BY <1>1
<1>3. CASE Exists(a)
  BY <1>1, <1>2, <1>3, NoLogin DEF RegisterCreate, SameLogin, LifeStep
<1>4. CASE ~Exists(a)
  <2>1. /\ account' = [account EXCEPT ![a] = NewAccount]
        /\ signIns' = [signIns EXCEPT ![a] = signIns[a]]
    BY <1>1, <1>2, <1>4, SameSignIns DEF RegisterCreate
  <2>2. CASE a \in inTurn
    <3>1. /\ pw' = [pw EXCEPT ![a] = 0] /\ pw[a] = account[a].password
          /\ open' = [open EXCEPT ![a] = FALSE]
          /\ opened' = [opened EXCEPT ![a] = signIns[a]] /\ opened[a] = signIns[a]
      <4>1. /\ account'[a] = NewAccount /\ signIns'[a] = signIns[a]
            /\ \A b \in Accounts \ {a} : SameLogin(b) /\ signIns'[b] = signIns[b]
        BY <2>1, RowWritten
      <4>2. account'[a].password = 0 /\ account'[a].refreshToken = NoToken
        BY <4>1, NewRowTyped
      <4>3. QED
        BY <1>1, <2>2, <4>1, <4>2, OneLogin
    <3>a. pw[a] = -1
      BY <1>4, <3>1 DEF Exists, None
    <3>b. open[a] = FALSE
      BY <1>4 DEF open, Together, Known
    <3>2. UNCHANGED <<open, opened>>
      BY <3>1, <3>b DEF open, opened
    <3>3. QED
      BY <3>1, <3>a, <3>2 DEF LifeStep, Sessions!LifeNext, Sessions!SignUp, pw, open, opened
  <2>3. CASE a \notin inTurn
    BY <1>1, <2>1, <2>3, OutsideLogin DEF LifeStep
  <2>4. QED
    BY <2>2, <2>3
<1>5. QED
  BY <1>3, <1>4

LEMMA IssueLife ==
    ASSUME Together, NEW p \in Procs, IssueUpdate(p)
    PROVE  LifeStep
<1>1. /\ h[p].account \in Accounts /\ UNCHANGED inTurn
      /\ account[h[p].account].password # None
  BY Actor DEF IssueUpdate, At
<1>2. PICK a \in Accounts : h[p].account = a
  BY <1>1
<1> DEFINE n == IF At(p, "signIn.issue") THEN signIns[a] + 1 ELSE signIns[a]
           row == [account[a] EXCEPT !.refreshToken = Len(tokens[a]) + 1]
<1>3. /\ account' = [account EXCEPT ![a] = row]
      /\ signIns' = [signIns EXCEPT ![a] = n]
  BY <1>2 DEF IssueUpdate
<1>4. row.password = account[a].password /\ row.refreshToken # NoToken
  <2>1. account[a] \in AccountRows /\ tokens[a] \in Seq(0 .. MaxPasswords)
    BY TypeInvUnfolds DEF Together
  <2>2. Len(tokens[a]) \in Nat
    BY <2>1, LenProperties
  <2>3. QED
    BY <2>1, <2>2 DEF AccountRows, NoToken
<1> HIDE DEF row, n
<1>5. CASE a \in inTurn
  <2>a. /\ account'[a] = row /\ signIns'[a] = n
        /\ \A b \in Accounts \ {a} : SameLogin(b) /\ signIns'[b] = signIns[b]
    BY <1>3, RowWritten
  <2>b. account'[a].password = account[a].password /\ account'[a].refreshToken # NoToken
    BY <1>4, <2>a
  <2>0. /\ pw' = [pw EXCEPT ![a] = account[a].password] /\ pw[a] = account[a].password
        /\ open' = [open EXCEPT ![a] = TRUE]
        /\ opened' = [opened EXCEPT ![a] = n] /\ opened[a] = signIns[a]
    BY <1>1, <1>5, <2>a, <2>b, OneLogin
  <2>1. pw[a] # -1 /\ open' = [open EXCEPT ![a] = TRUE]
        /\ opened' = [opened EXCEPT ![a] = n] /\ opened[a] = signIns[a]
    BY <1>1, <1>2, <2>0 DEF None
  <2>2. UNCHANGED pw
    BY <2>0 DEF pw
  <2>3. CASE At(p, "signIn.issue")
    <3>1. opened' = [opened EXCEPT ![a] = @ + 1]
      BY <2>1, <2>3 DEF n
    <3>2. QED
      BY <2>1, <2>2, <3>1 DEF LifeStep, Sessions!LifeNext, Sessions!SignIn, pw, open, opened
  <2>4. CASE ~At(p, "signIn.issue")
    <3>1. h[p].pc = "refresh.issue"
      BY <2>4 DEF IssueUpdate, At
    <3>2. account[a].refreshToken # NoToken
      BY <1>2, <1>5, <3>1 DEF Together, Undisturbed, AsRead
    <3>3. open[a] = TRUE
      BY <1>5, <3>2 DEF open
    <3>4. n = opened[a]
      BY <2>1, <2>4 DEF n
    <3>5. UNCHANGED <<open, opened>>
      BY <2>1, <3>3, <3>4 DEF open, opened
    <3>6. QED
      BY <2>2, <3>5 DEF LifeStep
  <2>5. QED
    BY <2>3, <2>4
<1>6. CASE a \notin inTurn
  BY <1>1, <1>3, <1>6, OutsideLogin DEF LifeStep
<1>7. QED
  BY <1>5, <1>6

LEMMA LogoutLife ==
    ASSUME Together, NEW p \in Procs, LogoutUpdate(p)
    PROVE  LifeStep
<1>1. h[p].account \in Accounts /\ UNCHANGED <<signIns, inTurn>>
  BY Actor DEF LogoutUpdate, At
<1>2. PICK a \in Accounts : h[p].account = a
  BY <1>1
<1> DEFINE row == [account[a] EXCEPT !.refreshToken = NoToken]
<1>3. /\ account' = [account EXCEPT ![a] = row]
      /\ signIns' = [signIns EXCEPT ![a] = signIns[a]]
  BY <1>1, <1>2, SameSignIns DEF LogoutUpdate
<1>4. row.password = account[a].password /\ row.refreshToken = NoToken
  BY TypeInvUnfolds DEF Together, AccountRows
<1> HIDE DEF row
<1>5. CASE a \in inTurn
  <2>1. /\ pw' = [pw EXCEPT ![a] = account[a].password] /\ pw[a] = account[a].password
        /\ open' = [open EXCEPT ![a] = FALSE]
        /\ opened' = [opened EXCEPT ![a] = signIns[a]] /\ opened[a] = signIns[a]
    <3>1. /\ account'[a] = row /\ signIns'[a] = signIns[a]
          /\ \A b \in Accounts \ {a} : SameLogin(b) /\ signIns'[b] = signIns[b]
      BY <1>3, RowWritten
    <3>2. account'[a].password = account[a].password /\ account'[a].refreshToken = NoToken
      BY <1>4, <3>1
    <3>3. QED
      BY <1>1, <1>5, <3>1, <3>2, OneLogin
  <2>2. UNCHANGED <<pw, opened>>
    BY <2>1 DEF pw, opened
  <2>3. QED
    BY <2>1, <2>2 DEF LifeStep, Sessions!LifeNext, Sessions!SignOut, pw, open, opened
<1>6. CASE a \notin inTurn
  BY <1>1, <1>3, <1>6, OutsideLogin DEF LifeStep
<1>7. QED
  BY <1>5, <1>6

LEMMA PasswordLife ==
    ASSUME Together, NEW a \in Accounts, UNCHANGED <<signIns, inTurn>>,
           account[a].password # None, account[a].password + 1 \in 0 .. MaxPasswords,
           account' = [account EXCEPT ![a] = NewPassword(account[a], account[a].password + 1)],
           a \in inTurn
    PROVE  LifeStep
<1> DEFINE row == NewPassword(account[a], account[a].password + 1)
<1>1. account' = [account EXCEPT ![a] = row] /\ signIns' = [signIns EXCEPT ![a] = signIns[a]]
  BY SameSignIns
<1>2. row.password = account[a].password + 1 /\ row.refreshToken = NoToken
  BY TypeInvUnfolds, NewPasswordTyped DEF Together
<1> HIDE DEF row
<1>3. /\ pw' = [pw EXCEPT ![a] = account[a].password + 1] /\ pw[a] = account[a].password
      /\ open' = [open EXCEPT ![a] = FALSE]
      /\ opened' = [opened EXCEPT ![a] = signIns[a]] /\ opened[a] = signIns[a]
  <2>1. /\ account'[a] = row /\ signIns'[a] = signIns[a]
        /\ \A b \in Accounts \ {a} : SameLogin(b) /\ signIns'[b] = signIns[b]
    BY <1>1, RowWritten
  <2>2. /\ account'[a].password = account[a].password + 1
        /\ account'[a].refreshToken = NoToken
    BY <1>2, <2>1
  <2>3. QED
    BY <2>1, <2>2, OneLogin
<1>4. pw' = [pw EXCEPT ![a] = @ + 1] /\ pw[a] # -1
  BY <1>3 DEF None
<1>5. UNCHANGED opened
  BY <1>3 DEF opened
<1>6. QED
  BY <1>3, <1>4, <1>5 DEF LifeStep, Sessions!LifeNext, Sessions!NewPassword, pw, open, opened

LEMMA ChangeLife ==
    ASSUME Together, NEW p \in Procs, ChangeUpdate(p)
    PROVE  LifeStep
<1>1. /\ h[p].pc = "change.update" /\ h[p].account \in Accounts
      /\ account[h[p].account].password # None
      /\ UNCHANGED <<signIns, inTurn>>
  BY Actor DEF ChangeUpdate, At
<1>2. PICK a \in Accounts : h[p].account = a
  BY <1>1
<1>3. account' = [account EXCEPT ![a] = NewPassword(account[a], h[p].with + 1)]
  BY <1>2 DEF ChangeUpdate
<1>4. h[p].with + 1 \in 0 .. MaxPasswords
  BY <1>1, AccountsAssumption, TypeInvUnfolds DEF None, HandlerRecords, Together
<1>5. CASE a \in inTurn
  <2>1. h[p].with = account[a].password
    BY <1>1, <1>2, <1>5 DEF Together, Undisturbed, AsRead
  <2>2. QED
    BY <1>1, <1>2, <1>3, <1>4, <1>5, <2>1, PasswordLife
<1>6. CASE a \notin inTurn
  <2>1. signIns' = [signIns EXCEPT ![a] = signIns[a]]
    BY <1>1, SameSignIns
  <2>2. QED
    BY <1>1, <1>3, <1>6, <2>1, OutsideLogin DEF LifeStep
<1>7. QED
  BY <1>5, <1>6

LEMMA ResetLife ==
    ASSUME Together, NEW p \in Procs, ResetTransaction(p)
    PROVE  LifeStep
<1>1. /\ h[p].account \in Accounts /\ account[h[p].account].password # None
      /\ UNCHANGED <<signIns, inTurn>>
  BY Actor DEF ResetTransaction, At
<1>2. PICK a \in Accounts : h[p].account = a
  BY <1>1
<1>3. CASE a \in inTurn
  <2>1. /\ account[a].password < MaxPasswords
        /\ account' = [account EXCEPT ![a] = NewPassword(account[a], account[a].password + 1)]
    BY <1>2, <1>3, ResetUsesLink
  <2>2. account[a].password + 1 \in 0 .. MaxPasswords
    BY <1>1, <1>2, <2>1, AccountsAssumption, TypeInvUnfolds DEF AccountRows, None, Together
  <2>3. QED
    BY <1>1, <1>2, <1>3, <2>1, <2>2, PasswordLife
<1>4. CASE a \notin inTurn
  <2>1. signIns' = [signIns EXCEPT ![a] = signIns[a]]
    BY <1>1, SameSignIns
  <2>2. UNCHANGED account \/ \E row : account' = [account EXCEPT ![a] = row]
    BY <1>2 DEF ResetTransaction
  <2>3. CASE UNCHANGED account
    BY <1>1, <2>3, NoLogin DEF SameLogin, LifeStep
  <2>4. QED
    BY <1>1, <1>4, <2>1, <2>2, <2>3, OutsideLogin DEF LifeStep
<1>5. QED
  BY <1>3, <1>4

LEMMA StepIsLife == Together /\ [Next]_vars => LifeStep
<1> SUFFICES ASSUME Together, [Next]_vars
             PROVE  LifeStep
  OBVIOUS
<1>1. ASSUME UNCHANGED <<account, signIns, inTurn>>
      PROVE  LifeStep
  BY <1>1, NoLogin DEF SameLogin, LifeStep
<1>2. ASSUME NEW p \in Procs, HandlerStep(p)
      PROVE  LifeStep
  <2>1. CASE \/ ForgotDeleteMany(p) \/ ForgotCreate(p) \/ OtpDeleteMany(p) \/ OtpCreate(p)
    BY <2>1, <1>1 DEF ForgotDeleteMany, ForgotCreate, OtpDeleteMany, OtpCreate
  <2>2. CASE VerifyTransaction(p)
    <3>1. h[p].account \in Accounts /\ UNCHANGED <<signIns, inTurn>>
      BY <2>2, ActorTyped DEF VerifyTransaction, At, Together
    <3>2. \A b \in Accounts : SameLogin(b)
      <4>0. PICK a \in Accounts : h[p].account = a
        BY <3>1
      <4>1. \/ UNCHANGED account
            \/ account' = [account EXCEPT ![a].isEmailVerified = TRUE]
        BY <2>2, <4>0 DEF VerifyTransaction
      <4>2. \A b \in Accounts : account[b] \in AccountRows
        BY TypeInvUnfolds DEF Together
      <4>3. CASE UNCHANGED account
        BY <4>3 DEF SameLogin
      <4>4. CASE account' = [account EXCEPT ![a].isEmailVerified = TRUE]
        BY <4>2, <4>4, TypeInvUnfolds DEF SameLogin, AccountRows, Together
      <4>5. QED
        BY <4>1, <4>3, <4>4
    <3>3. QED
      BY <3>1, <3>2, NoLogin DEF LifeStep, Together, TypeInv, TypeOK
  <2>3. QED
    BY <1>2, <2>1, <2>2, RegisterLife, IssueLife, LogoutLife, ChangeLife, ResetLife
       DEF HandlerStep
<1>3. ASSUME NEW p \in Procs, NewRequest(p)
      PROVE  LifeStep
  BY <1>1, <1>3, NewRequestAsks DEF Together, NewlyAsked, Tables
<1>4. ASSUME NEW a \in Accounts, NEW b \in BOOLEAN, SetActive(a, b)
      PROVE  LifeStep
  <2>1. account' = [account EXCEPT ![a].isActive = b] /\ UNCHANGED <<signIns, inTurn>>
    BY <1>4 DEF SetActive
  <2>2. \A d \in Accounts : account[d] \in AccountRows
    BY TypeInvUnfolds DEF Together
  <2>3. \A d \in Accounts : SameLogin(d)
    BY <2>1, <2>2, TypeInvUnfolds DEF SameLogin, AccountRows, Together
  <2>4. QED
    BY <2>1, <2>3, NoLogin DEF LifeStep, Together, TypeInv, TypeOK
<1>5. QED
  BY <1>1, <1>2, <1>3, <1>4
     DEF Next, HandlerFails, CodeExpires, OtpTaskDeletes, OtpTaskCreates, OtpTaskFails, vars

LEMMA InitIsLife == Init => Sessions!LifeInit
<1> SUFFICES ASSUME Init
             PROVE  Sessions!LifeInit
  OBVIOUS
<1>1. \A a \in Accounts : account[a].password = -1 /\ account[a].refreshToken = NoToken
                          /\ signIns[a] = 0
  BY DEF Init, NoAccount, None
<1>2. QED
  BY <1>1 DEF Sessions!LifeInit, None

(* On an account whose requests do not overlap AuthService implements the  *)
(* life of a session: once signed out, by logout or by a new password, it  *)
(* is signed in by the password of the moment and never by a refresh.      *)
THEOREM SessionPromiseKept == Spec => KeepsSessionPromise
<1>1. Together /\ [Next]_vars => [Sessions!LifeNext]_(Sessions!lifeVars)
  BY StepIsLife DEF LifeStep, Sessions!lifeVars, pw, open, opened
<1>2. QED
  BY InitIsLife, <1>1, AlwaysTogether, PTL DEF Spec, KeepsSessionPromise, Sessions!LifeSpec
=============================================================================
