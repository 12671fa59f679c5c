-------------------------- MODULE UserStore_proofs --------------------------
(***************************************************************************)
(* For any users, any requests at once, any number of restarts and whatever *)
(* fails: UserStore is type correct and keeps its invariants.  What is true *)
(* only while requests of a kind do not overlap says so by calm.            *)
(***************************************************************************)
EXTENDS UserStore, FiniteSetTheorems, TLAPS

-----------------------------------------------------------------------------
(* The inductive invariant.                                                  *)

(* Where a request of a kind can be.                                         *)
AtAdmin == {"admin", "delete", "drop", "create", "rotate", "renew"}
Checked == {"delete", "drop", "create", "rotate", "renew"}
Reading == {"ceremony", "forget", "count", "replace"}
AtFinish == {"finish"} \cup Reading
Counting == {"spend", "compare", "store"}
AtAssert == {"assert", "verify"} \cup Counting

(* What each request works on.                                               *)
Asserts(p) ==
  /\ job[p].op = "assert" /\ Arg(p) \in Challenges /\ signed[Arg(p)] # None
  /\ Uid(p) = signed[Arg(p)].uid
JobFits(p) ==
  /\ pc[p] \in AtAdmin =>
       job[p].op \in AdminOps /\ Uid(p) \in Uids /\ job[p].caller \in Uids
  /\ pc[p] = "begin" => job[p].op = "begin" /\ Uid(p) \in Uids
  /\ pc[p] \in AtFinish =>
       job[p].op = "finish" /\ Uid(p) \in Uids /\ Arg(p) \in 1..begun
  /\ pc[p] = "challenge" => job[p].op = "challenge"
  /\ pc[p] \in AtAssert => Asserts(p)
  /\ pc[p] \in Counting => read[p][signed[Arg(p)].cred] # None
  /\ pc[p] = "token" => job[p].op = "token"
  /\ pc[p] = "session" => job[p].op = "token" \/ Asserts(p)

RowsHaveTokens == \A u \in Uids : users[u] = None <=> tokens[u] = None
Typed == /\ TypeOK /\ RowsHaveTokens /\ imports <= crashes + 1
         /\ \A p \in Handlers : JobFits(p)

(* Requests of a kind that has not overlapped are one at a time.             *)
Busy(p, ops) == pc[p] # "idle" /\ job[p].op \in ops
Alone(kind, ops) ==
  kind \in calm => \A p, q \in Handlers : Busy(p, ops) /\ Busy(q, ops) => p = q
AllAlone ==
  Alone("admin", AdminOps) /\ Alone("enrol", EnrolOps) /\ Alone("login", LoginOps)

(* A single admin request was let in by an admin, who is another user than   *)
(* the one it deletes.                                                       *)
AdminInv ==
  "admin" \in calm =>
    /\ YamlAdmins # {} => \E u \in Uids : users[u] = "admin"
    /\ \A p \in Handlers :
         pc[p] \in Checked => users[job[p].caller] = "admin"
OthersGo == \A p \in Handlers : pc[p] = "drop" => OtherAccount(p)

(* A single enrolment has read all that is enrolled.                         *)
EnrolInv ==
  "enrol" \in calm =>
    /\ \A u \in Uids : enrolled[u] \subseteq Held(passkeys[u])
    /\ \A p \in Handlers :
         pc[p] \in Reading => enrolled[Uid(p)] \subseteq Held(read[p])

(* The tokens of the table are neither retired nor shared.                   *)
TokensInv ==
  imports = 1 =>
    /\ \A u \in Uids : tokens[u] # None => tokens[u] \notin retired
    /\ \A u, v \in Uids : tokens[u] = tokens[v] => u = v \/ tokens[u] = None
    /\ \A p \in Handlers : /\ pc[p] = "token" => job[p].fresh \/ Arg(p) \in retired
                           /\ pc[p] = "session" /\ job[p].op = "token" => job[p].fresh

(* A challenge is in one place: with a user, with the logins, with a request *)
(* that took it from there, or answered.                                     *)
Enrols(p) == pc[p] \in {"forget", "count", "replace"}
Forgotten(p) == pc[p] \in {"count", "replace"}
Spent(p) == pc[p] \in {"compare", "store"} \/ (pc[p] = "session" /\ job[p].op = "assert")
Logs(p) == pc[p] \in {"verify", "spend"} \/ Spent(p)
Gone(n) == n <= begun /\ n \notin logins /\ \A u \in Uids : reg[u] # n
StillPlaced(q) ==
  /\ Enrols(q) => /\ Arg(q) <= begun /\ Arg(q) \notin logins
                  /\ \A u \in Uids \ {Uid(q)} : reg[u] # Arg(q)
  /\ Logs(q) => Arg(q) <= begun /\ \A u \in Uids : reg[u] # Arg(q)
  /\ Forgotten(q) \/ Spent(q) => Gone(Arg(q))
Once(q) ==
  /\ "enrol" \in calm => /\ pc[q] = "forget" => reg[Uid(q)] = Arg(q)
                         /\ Forgotten(q) => Arg(q) \notin answered
  /\ "login" \in calm => /\ pc[q] \in {"verify", "spend"} => Arg(q) \in logins
                         /\ Spent(q) => Arg(q) \notin answered
Open ==
  /\ \A n \in logins : n <= begun /\ \A u \in Uids : reg[u] # n
  /\ \A u \in Uids : reg[u] # None => reg[u] <= begun
  /\ \A u, v \in Uids : reg[u] = reg[v] => u = v \/ reg[u] = None
  /\ \A n \in answered : Gone(n)
Apart(p, q) == Enrols(p) /\ Logs(q) => Arg(p) # Arg(q)
Placed == /\ Open /\ \A q \in Handlers : StillPlaced(q) /\ Once(q)
          /\ \A p, q \in Handlers : Apart(p, q)

-----------------------------------------------------------------------------
(* Control.                                                                  *)

Stays(q) == pc'[q] = pc[q] /\ job'[q] = job[q] /\ read'[q] = read[q]

(* A request moves, the others stay.                                         *)
LEMMA WorkMoves ==
  ASSUME ControlOK, NEW p \in Handlers, NEW l, NEW j, NEW k, Work(p, l, j, k)
  PROVE  /\ pc'[p] = l /\ job'[p] = j /\ read'[p] = k
         /\ \A q \in Handlers \ {p} : Stays(q)
BY DEF Work, ControlOK, Stays

LEMMA GotoMoves ==
  ASSUME ControlOK, NEW p \in Handlers, NEW l, Goto(p, l)
  PROVE  /\ pc'[p] = l /\ (l # "idle" => job'[p] = job[p] /\ read'[p] = read[p])
         /\ \A q \in Handlers \ {p} : Stays(q)
BY WorkMoves DEF Goto, Done, Reads

LEMMA NothingType == Nothing \in Keys /\ NoJob \in Jobs /\ "idle" \in Labels
BY DEF Nothing, Keys, NoJob, Job, Jobs, Labels

LEMMA WorkType ==
  ASSUME ControlOK, NEW p \in Handlers, NEW l \in Labels, NEW j \in Jobs,
         NEW k \in Keys, Work(p, l, j, k)
  PROVE  ControlOK'
BY DEF Work, ControlOK

LEMMA GotoType ==
  ASSUME ControlOK, NEW p \in Handlers, NEW l \in Labels, Goto(p, l)
  PROVE  ControlOK'
<1>1. job[p] \in Jobs /\ read[p] \in Keys
  BY DEF ControlOK
<1> QED BY <1>1, WorkType, NothingType DEF Goto, Done, Reads

-----------------------------------------------------------------------------
(* Types.                                                                    *)

(* A request that is not concerned still fits.                               *)
LEMMA OthersFit ==
  ASSUME Typed, NEW q \in Handlers, Stays(q), begun' \in Nat, begun <= begun',
         \A n \in Challenges : signed[n] # None => signed'[n] = signed[n]
  PROVE  JobFits(q)'
<1>1. JobFits(q) /\ begun \in Nat
  BY DEF Typed, TypeOK, DataOK
<1>2. Asserts(q) => Asserts(q)' /\ signed'[Arg(q)] = signed[Arg(q)]
  BY DEF Asserts, Stays, Arg, Uid
<1>3. pc[q] \in AtFinish => Arg(q)' \in 1..begun'
  BY <1>1 DEF JobFits, Stays, Arg
<1> QED BY <1>1, <1>2, <1>3
     DEF JobFits, Stays, Arg, Uid, Counting, AtAssert

(* A step is typed if its data are and its request fits.                     *)
LEMMA StepTyped ==
  ASSUME Typed, NEW p \in Handlers, \A q \in Handlers \ {p} : Stays(q),
         ControlOK', DataOK', RowsHaveTokens', imports' <= crashes' + 1,
         JobFits(p)', begun <= begun', UNCHANGED signed
  PROVE  Typed'
<1>1. begun' \in Nat
  BY DEF DataOK
<1>2. \A q \in Handlers : JobFits(q)'
  BY <1>1, OthersFit
<1> QED BY <1>2 DEF Typed, TypeOK

(* An idle request fits.                                                     *)
LEMMA IdleFits ==
  ASSUME NEW p, pc[p] = "idle"
  PROVE  JobFits(p)
BY DEF JobFits, AtAdmin, AtFinish, Reading, Counting, AtAssert

(* A request of some kind begins.                                            *)
LEMMA StartsTyped ==
  ASSUME Typed, NEW p \in Handlers, NEW op \in AllOps, NEW caller \in Uids \cup {None},
         NEW uid \in Uids \cup {None}, NEW arg \in Challenges \cup Tokens \cup {None},
         Starts(p, op, caller, uid, arg),
         op \in AdminOps => uid \in Uids /\ caller \in Uids,
         op \in EnrolOps => uid \in Uids,
         op = "finish" => arg \in 1..begun,
         op = "assert" => arg \in Challenges /\ signed[arg] # None /\ uid = signed[arg].uid
  PROVE  Typed'
<1> DEFINE l == IF op \in AdminOps THEN "admin" ELSE op
           j == Job(op, caller, uid, arg, arg \notin retired)
<1>1. ControlOK /\ DataOK /\ Work(p, l, j, Nothing)
  BY DEF Typed, TypeOK, Starts
<1>2. l \in Labels
  BY DEF AllOps, AdminOps, EnrolOps, LoginOps, Labels
<1>3. j \in Jobs
  BY DEF Job, Jobs
<1>4. j.op = op /\ j.uid = uid /\ j.arg = arg /\ j.caller = caller
  BY DEF Job
<1>5. \/ op \in AdminOps /\ l = "admin"
      \/ op \in {"begin", "finish", "challenge", "assert", "token"} /\ l = op
         /\ op \notin AdminOps
  BY DEF AllOps, AdminOps, EnrolOps, LoginOps
<1> HIDE DEF l, j
<1>6. ControlOK' /\ pc'[p] = l /\ job'[p] = j /\ \A q \in Handlers \ {p} : Stays(q)
  BY <1>1, <1>2, <1>3, WorkType, WorkMoves, NothingType
<1>7. UNCHANGED <<tables, memory, signed, imports, crashes, history>>
  BY DEF Starts
<1>8. DataOK' /\ RowsHaveTokens' /\ imports' <= crashes' + 1 /\ begun <= begun'
  <2>0. calm' \subseteq calm
    BY Zenon DEF Starts
  <2>a. served' = served + 1 /\ served < MaxServed
    BY DEF Starts
  <2>1. served' \in 0..MaxServed /\ calm' \subseteq {"admin", "enrol", "login", "mixed"}
    BY <1>1, <2>0, <2>a, BoundsAssumption DEF DataOK
  <2> QED BY <1>1, <1>7, <2>1
       DEF DataOK, Typed, RowsHaveTokens, tables, memory, history
<1>9. JobFits(p)'
  BY <1>4, <1>5, <1>6, <1>7
     DEF JobFits, AtAdmin, AtFinish, Reading, AtAssert, Counting, Asserts, Arg, Uid,
         EnrolOps, memory
<1> QED BY <1>6, <1>7, <1>8, <1>9, StepTyped

(* What a step does to the data of a typed state.                            *)
Frame == UNCHANGED <<signed, imports, served, crashes, calm>>
DataTyped == DataOK' /\ RowsHaveTokens' /\ begun <= begun'

LEMMA SameData ==
  ASSUME Typed, Frame, UNCHANGED <<tables, memory, history>>
  PROVE  DataTyped
BY DEF Typed, TypeOK, DataOK, RowsHaveTokens, Frame, DataTyped, tables, memory,
   history

LEMMA GotoTyped ==
  ASSUME Typed, NEW p \in Handlers, NEW l \in Labels, Goto(p, l), Frame, DataTyped,
         l # "idle" /\ pc'[p] = l /\ job'[p] = job[p] /\ read'[p] = read[p]
           => JobFits(p)'
  PROVE  Typed'
<1>1. ControlOK /\ imports' <= crashes' + 1
  BY DEF Typed, TypeOK, Frame
<1>2. /\ ControlOK' /\ pc'[p] = l
      /\ (l # "idle" => job'[p] = job[p] /\ read'[p] = read[p])
      /\ \A q \in Handlers \ {p} : Stays(q)
  BY <1>1, GotoType, GotoMoves
<1>3. JobFits(p)'
  BY <1>2, IdleFits
     DEF JobFits, AtAdmin, AtFinish, Reading, AtAssert, Counting
<1> QED BY <1>1, <1>2, <1>3, StepTyped DEF Frame, DataTyped

LEMMA DoneTyped ==
  ASSUME Typed, NEW p \in Handlers, Done(p), Frame, DataTyped
  PROVE  Typed'
<1>1. Goto(p, "idle")
  BY DEF Goto
<1> QED BY <1>1, GotoTyped DEF Labels

LEMMA ReadsTyped ==
  ASSUME Typed, NEW p \in Handlers, NEW l \in Labels, NEW k \in Keys, Reads(p, l, k),
         Frame, DataTyped,
         pc'[p] = l /\ job'[p] = job[p] /\ read'[p] = k => JobFits(p)'
  PROVE  Typed'
<1>1. ControlOK /\ imports' <= crashes' + 1 /\ job[p] \in Jobs
  BY DEF Typed, TypeOK, Frame, ControlOK
<1>2. /\ ControlOK' /\ pc'[p] = l /\ job'[p] = job[p] /\ read'[p] = k
      /\ \A q \in Handlers \ {p} : Stays(q)
  BY <1>1, WorkType, WorkMoves DEF Reads
<1> QED BY <1>1, <1>2, StepTyped DEF Frame, DataTyped

LEMMA AdminTyped ==
  ASSUME Typed, NEW p \in Handlers, AdminStep(p)
  PROVE  Typed'
<1> USE DEF From
<1>0. /\ JobFits(p) /\ DataOK /\ RowsHaveTokens /\ begun \in Nat
      /\ Unseen # {} => NewToken \in Tokens
  BY DEF Typed, TypeOK, DataOK, NewToken, Unseen, Tokens
<1>1. CASE AdminCheck(p)
  <2> DEFINE l == IF users[job[p].caller] = "admin" THEN job[p].op ELSE "idle"
  <2>1. job[p].op \in AdminOps /\ Uid(p) \in Uids /\ job[p].caller \in Uids
    BY <1>0, <1>1 DEF AdminCheck, JobFits, AtAdmin
  <2>2. l \in Labels /\ (l # "idle" => l \in AtAdmin)
    BY <2>1 DEF AdminOps, Labels, AtAdmin
  <2>3. Goto(p, l) /\ Frame /\ DataTyped
    BY <1>1, SameData DEF AdminCheck, Frame
  <2> HIDE DEF l
  <2>4. l # "idle" /\ pc'[p] = l /\ job'[p] = job[p] => JobFits(p)'
    BY <2>1, <2>2
       DEF JobFits, AtAdmin, AtFinish, Reading, AtAssert, Counting, Uid
  <2> QED BY <2>2, <2>3, <2>4, GotoTyped
<1>2. ASSUME pc[p] \in AtAdmin, NEW l \in AtAdmin \cup {"idle"}, Goto(p, l),
             Frame, DataTyped
      PROVE  Typed'
  <2>1. job[p].op \in AdminOps /\ Uid(p) \in Uids /\ job[p].caller \in Uids
    BY <1>0, <1>2 DEF JobFits
  <2>2. l # "idle" /\ pc'[p] = l /\ job'[p] = job[p] => JobFits(p)'
    BY <2>1 DEF JobFits, AtAdmin, AtFinish, Reading, AtAssert, Counting, Uid
  <2>3. l \in Labels
    BY DEF AtAdmin, Labels
  <2> QED BY <1>2, <2>2, <2>3, GotoTyped
<1>3. CASE DeleteLooksUp(p)
  BY <1>2, <1>3, SameData DEF DeleteLooksUp, AtAdmin, Frame
<1>4. CASE RotateLooksUp(p)
  BY <1>2, <1>4, SameData DEF RotateLooksUp, AtAdmin, Frame
<1>5. Uid(p) \in Uids
  BY <1>0 DEF AdminStep, AdminCheck, DeleteLooksUp, DropUser, CreateUser, RotateLooksUp,
       RotateToken, RotateFails, JobFits, AtAdmin
<1>6. CASE DropUser(p)
  <2>1. DataTyped
    BY <1>0, <1>5, <1>6, NothingType
       DEF DropUser, DataTyped, DataOK, RowsHaveTokens, memory
  <2> QED BY <1>6, <2>1, DoneTyped DEF DropUser, Frame
<1>7. CASE CreateUser(p)
  <2>1. DataTyped
    BY <1>0, <1>5, <1>7, NoneAssumption
       DEF CreateUser, GivesToken, DataTyped, DataOK, RowsHaveTokens, memory, history, Tokens
  <2> QED BY <1>7, <2>1, DoneTyped DEF CreateUser, Frame
<1>8. CASE RotateToken(p)
  <2>1. DataTyped
    BY <1>0, <1>5, <1>8, NoneAssumption
       DEF RotateToken, GivesToken, DataTyped, DataOK, RowsHaveTokens, memory, Tokens
  <2> QED BY <1>8, <2>1, DoneTyped DEF RotateToken, Frame
<1>9. CASE RotateFails(p)
  BY <1>9, SameData, DoneTyped DEF RotateFails, RotateError, history, Frame
<1> QED BY <1>1, <1>3, <1>4, <1>6, <1>7, <1>8, <1>9 DEF AdminStep

LEMMA EnrolTyped ==
  ASSUME Typed, NEW p \in Handlers, EnrolStep(p)
  PROVE  Typed'
<1> USE DEF From
<1>0. JobFits(p) /\ DataOK /\ RowsHaveTokens /\ begun \in Nat /\ MaxChallenges \in Nat
  BY BoundsAssumption DEF Typed, TypeOK, DataOK
<1>1. CASE RegisterBegin(p)
  <2>1. Uid(p) \in Uids /\ begun + 1 \in Challenges
    BY <1>0, <1>1 DEF RegisterBegin, JobFits, Challenges
  <2>2. DataTyped
    BY <1>0, <1>1, <2>1
       DEF RegisterBegin, NewChallenge, DataTyped, DataOK, RowsHaveTokens, tables,
           history
  <2> QED BY <1>1, <2>2, DoneTyped DEF RegisterBegin, Frame
<1>2. ASSUME pc[p] \in AtFinish
      PROVE  /\ job[p].op = "finish" /\ Uid(p) \in Uids /\ Arg(p) \in 1..begun
             /\ Arg(p) \in Challenges
  BY <1>0, <1>2 DEF JobFits, DataOK, Challenges
<1>3. ASSUME pc[p] \in AtFinish, NEW l \in AtFinish \cup {"idle"}, NEW k \in Keys,
             Goto(p, l) \/ Reads(p, l, k), Frame, DataTyped
      PROVE  Typed'
  <2>1. /\ pc'[p] = l /\ job'[p] = job[p] => JobFits(p)'
    BY <1>0, <1>2, <1>3 DEF DataTyped, DataOK, JobFits, AtAdmin, AtFinish, Reading,
         AtAssert, Counting, Uid, Arg
  <2>2. l \in Labels
    BY DEF AtFinish, Reading, Labels
  <2> QED BY <1>3, <2>1, <2>2, GotoTyped, ReadsTyped
<1>4. CASE RegisterRefused(p)
  BY <1>4, SameData, DoneTyped DEF RegisterRefused, Frame
<1>5. CASE FinishReads(p)
  <2>1. DataTyped /\ Frame
    BY <1>5, SameData DEF FinishReads, Frame
  <2>2. Uid(p) \in Uids /\ passkeys[Uid(p)] \in Keys
    BY <1>0, <1>2, <1>5 DEF FinishReads, AtFinish, DataOK
  <2> QED BY <1>3, <1>5, <2>1, <2>2, DoneTyped DEF FinishReads, AtFinish, Reading
<1>6. CASE FinishVerifies(p)
  BY <1>3, <1>6, SameData, NothingType
     DEF FinishVerifies, AtFinish, Reading, Frame
<1>7. CASE FinishForgets(p)
  <2>0. Uid(p) \in Uids
    BY <1>2, <1>7 DEF FinishForgets, AtFinish, Reading
  <2>1. DataTyped
    BY <1>0, <1>7, <2>0
       DEF FinishForgets, DataTyped, DataOK, RowsHaveTokens, tables, history
  <2> QED BY <1>3, <1>7, <2>1, NothingType DEF FinishForgets, AtFinish, Reading, Frame
<1>8. CASE CountsUser(p)
  BY <1>3, <1>8, SameData, NothingType DEF CountsUser, AtFinish, Reading, Frame
<1>9. CASE ReplacePasskeys(p)
  <2>1. Uid(p) \in Uids /\ Arg(p) \in Challenges /\ Challenges \subseteq Credentials
    BY <1>0, <1>2, <1>9 DEF ReplacePasskeys, AtFinish, Reading, Challenges, Credentials
  <2>2. Collected(p) \in Keys
    BY <1>0, <2>1 DEF Typed, TypeOK, ControlOK, Collected, Keys, SignCounts
  <2>3. DataTyped
    BY <1>0, <1>9, <2>1, <2>2
       DEF ReplacePasskeys, DataTyped, DataOK, RowsHaveTokens, memory
  <2> QED BY <1>9, <2>3, DoneTyped DEF ReplacePasskeys, Frame
<1>10. CASE RollsBack(p)
  BY <1>10, SameData, DoneTyped DEF RollsBack, Frame
<1> QED BY <1>1, <1>4, <1>5, <1>6, <1>7, <1>8, <1>9, <1>10 DEF EnrolStep

LEMMA LoginTyped ==
  ASSUME Typed, NEW p \in Handlers, LoginStep(p)
  PROVE  Typed'
<1> USE DEF From
<1>0. JobFits(p) /\ DataOK /\ RowsHaveTokens /\ begun \in Nat /\ MaxChallenges \in Nat
  BY BoundsAssumption DEF Typed, TypeOK, DataOK
<1>1. CASE LoginBegin(p)
  <2>1. begun + 1 \in Challenges
    BY <1>0, <1>1 DEF LoginBegin, Challenges
  <2>2. DataTyped
    BY <1>0, <1>1, <2>1
       DEF LoginBegin, NewChallenge, DataTyped, DataOK, RowsHaveTokens, tables,
           history
  <2> QED BY <1>1, <2>2, DoneTyped DEF LoginBegin, Frame
<1>2. ASSUME Asserts(p)
      PROVE  /\ signed[Arg(p)] \in Assertions /\ Uid(p) \in Uids /\ Arg(p) \in Challenges
             /\ signed[Arg(p)].cred \in Credentials /\ signed[Arg(p)].count \in SignCounts
  <2>1. signed[Arg(p)] \in Assertions
    BY <1>0, <1>2 DEF Asserts, DataOK
  <2> QED BY <1>2, <2>1 DEF Asserts, Assertions
<1>3. ASSUME Asserts(p), NEW l \in AtAssert \cup {"session", "idle"}, NEW k \in Keys,
             Goto(p, l) \/ Reads(p, l, k), Frame, DataTyped,
             l \in Counting => IF Goto(p, l) THEN pc[p] \in Counting
                               ELSE k[signed[Arg(p)].cred] # None
      PROVE  Typed'
  <2>1. /\ pc'[p] = l /\ job'[p] = job[p] => Asserts(p)' /\ Arg(p)' = Arg(p)
    BY <1>3 DEF Asserts, Uid, Arg, Frame
  <2>2. pc[p] \in Counting => read[p][signed[Arg(p)].cred] # None
    BY <1>0 DEF JobFits
  <2>3. ASSUME pc'[p] = l, job'[p] = job[p],
               l \in Counting => read'[p][signed[Arg(p)].cred] # None
        PROVE  JobFits(p)'
    BY <1>3, <2>1, <2>3
       DEF JobFits, AtAdmin, AtFinish, Reading, AtAssert, Counting, Frame
  <2>4. l \in Labels
    BY DEF AtAssert, Counting, Labels
  <2>5. CASE Goto(p, l)
    BY <1>3, <2>2, <2>3, <2>4, <2>5, GotoTyped
  <2>6. CASE ~Goto(p, l)
    BY <1>3, <2>3, <2>4, <2>6, ReadsTyped
  <2> QED BY <2>5, <2>6
<1>4. CASE LoginLooksUp(p)
  <2>1. Asserts(p) /\ Frame /\ DataTyped
    BY <1>0, <1>4, SameData DEF LoginLooksUp, JobFits, AtAssert, Frame
  <2> QED BY <1>3, <1>4, <2>1, NothingType DEF LoginLooksUp, AtAssert, Counting
<1>5. CASE LoginVerifies(p)
  <2>1. Asserts(p) /\ Frame /\ DataTyped
    BY <1>0, <1>5, SameData DEF LoginVerifies, JobFits, AtAssert, Frame
  <2>2. passkeys[Uid(p)] \in Keys
    BY <1>0, <1>2, <2>1 DEF DataOK
  <2>3. CASE Done(p)
    BY <2>1, <2>3, DoneTyped
  <2>4. CASE ~Done(p)
    <3> DEFINE k == passkeys[Uid(p)]
    <3>1. Reads(p, "spend", k) /\ k[signed[Arg(p)].cred] # None /\ pc[p] = "verify"
      BY <1>5, <2>4 DEF LoginVerifies
    <3>2. pc'[p] = "spend" /\ job'[p] = job[p] /\ read'[p] = k => JobFits(p)'
      BY <2>1, <3>1
         DEF JobFits, AtAdmin, AtFinish, Reading, AtAssert, Counting, Frame, Asserts, Uid,
             Arg
    <3> HIDE DEF k
    <3>3. k \in Keys
      BY <2>2 DEF k
    <3> QED BY <2>1, <3>1, <3>2, <3>3, ReadsTyped DEF Labels
  <2> QED BY <2>3, <2>4
<1>6. CASE LoginForgets(p)
  <2>1. Asserts(p) /\ Frame
    BY <1>0, <1>6 DEF LoginForgets, JobFits, AtAssert, Counting, Frame
  <2>2. DataTyped
    BY <1>0, <1>6
       DEF LoginForgets, EndCeremony, DataTyped, DataOK, RowsHaveTokens, tables, history
  <2> QED BY <1>3, <1>6, <2>1, <2>2, NothingType DEF LoginForgets, AtAssert, Counting
<1>7. CASE CountCompares(p)
  <2>1. Asserts(p) /\ Frame /\ DataTyped
    BY <1>0, <1>7, SameData DEF CountCompares, JobFits, AtAssert, Counting, Frame
  <2> QED BY <1>3, <1>7, <2>1, NothingType DEF CountCompares, AtAssert, Counting
<1>8. ASSUME pc[p] \in Counting PROVE NewCount(p) \in SignCounts /\ Asserts(p)
  <2>1. Asserts(p) /\ read[p] \in Keys /\ read[p][signed[Arg(p)].cred] # None
    BY <1>0, <1>8 DEF JobFits, AtAssert, Typed, TypeOK, ControlOK
  <2> QED BY <1>2, <2>1 DEF NewCount, Signed, KnownCount, Keys
<1>9. CASE CountUpdates(p)
  <2>1. NewCount(p) \in SignCounts /\ Asserts(p) /\ Frame
    BY <1>8, <1>9 DEF CountUpdates, Counting, Frame
  <2>2. passkeys' \in [Uids -> Keys]
    <3>1. ASSUME NEW u \in Uids PROVE passkeys'[u] \in Keys
      BY <1>0, <1>2, <1>9, <2>1 DEF CountUpdates, DataOK, Keys
    <3>2. passkeys' = [u \in Uids |-> passkeys'[u]]
      BY <1>0, <1>9 DEF CountUpdates, DataOK
    <3> HIDE DEF Keys
    <3> QED BY <3>1, <3>2
  <2>3. DataTyped
    BY <1>0, <1>9, <2>2 DEF CountUpdates, DataTyped, DataOK, RowsHaveTokens, memory, history
  <2> QED BY <1>3, <1>9, <2>1, <2>3, NothingType DEF CountUpdates, AtAssert, Counting
<1>10. CASE CountFails(p)
  <2>1. Asserts(p) /\ Frame /\ DataTyped
    BY <1>8, <1>10, SameData DEF CountFails, Counting, Frame
  <2> QED BY <1>3, <1>10, <2>1, NothingType DEF CountFails, AtAssert, Counting
<1>11. CASE TokenLooksUp(p)
  <2> DEFINE l == IF \E u \in Uids : tokens[u] = Arg(p) THEN "session" ELSE "idle"
  <2>1. Goto(p, l) /\ Frame /\ DataTyped /\ l \in {"session", "idle"}
    BY <1>11, SameData DEF TokenLooksUp, Frame
  <2>2. job[p].op = "token"
    BY <1>0, <1>11 DEF TokenLooksUp, JobFits
  <2> HIDE DEF l
  <2>3. l # "idle" /\ pc'[p] = l /\ job'[p] = job[p] => JobFits(p)'
    BY <2>1, <2>2 DEF JobFits, AtAdmin, AtFinish, Reading, AtAssert, Counting
  <2> QED BY <2>1, <2>3, GotoTyped DEF Labels
<1>12. CASE SetSession(p)
  <2>1. job[p].op = "assert" => Arg(p) \in Challenges
    BY <1>0, <1>12 DEF SetSession, JobFits, Asserts
  <2>2. DataTyped
    BY <1>0, <1>12, <2>1 DEF SetSession, DataTyped, DataOK, RowsHaveTokens, tables, memory
  <2> QED BY <1>12, <2>2, DoneTyped DEF SetSession, Frame
<1> QED BY <1>1, <1>4, <1>5, <1>6, <1>7, <1>9, <1>10, <1>11, <1>12 DEF LoginStep

LEMMA BeginTyped ==
  ASSUME Typed, NEW p \in Handlers,
         BeginAdmin(p) \/ BeginEnrol(p) \/ BeginLogin(p) \/ BeginToken(p)
  PROVE  Typed'
<1>0. DataOK /\ begun \in Nat /\ 1..begun \subseteq Challenges
  BY BoundsAssumption DEF Typed, TypeOK, DataOK, Challenges
<1>1. ASSUME NEW op \in AdminOps, NEW caller \in Uids, NEW uid \in Uids,
             Starts(p, op, caller, uid, None)
      PROVE  Typed'
  <2>1. op \in AllOps /\ op \notin EnrolOps /\ op # "finish" /\ op # "assert"
    BY DEF AllOps, AdminOps, EnrolOps
  <2> QED BY <1>1, <2>1, StartsTyped
<1>2. ASSUME NEW u \in Uids, Starts(p, "begin", u, u, None) PROVE Typed'
  <2>1. "begin" \in AllOps /\ "begin" \notin AdminOps
    BY DEF AllOps, AdminOps, EnrolOps
  <2> QED BY <1>2, <2>1, StartsTyped
<1>3. ASSUME NEW u \in Uids, NEW n \in 1..begun, Starts(p, "finish", u, u, n)
      PROVE  Typed'
  <2>1. "finish" \in AllOps /\ "finish" \notin AdminOps
    BY DEF AllOps, AdminOps, EnrolOps
  <2> QED BY <1>0, <1>3, <2>1, StartsTyped
<1>4. CASE Starts(p, "challenge", None, None, None)
  <2>1. "challenge" \in AllOps /\ "challenge" \notin AdminOps \cup EnrolOps
    BY DEF AllOps, AdminOps, EnrolOps, LoginOps
  <2> QED BY <1>4, <2>1, StartsTyped
<1>5. ASSUME NEW n \in Challenges, signed[n] # None,
             Starts(p, "assert", None, signed[n].uid, n)
      PROVE  Typed'
  <2>1. "assert" \in AllOps /\ "assert" \notin AdminOps \cup EnrolOps
    BY DEF AllOps, AdminOps, EnrolOps, LoginOps
  <2>2. signed[n].uid \in Uids
    BY <1>0, <1>5 DEF DataOK, Assertions
  <2> QED BY <1>5, <2>1, <2>2, StartsTyped
<1>6. ASSUME NEW t \in retired \cup {tokens[u] : u \in Uids}, t # None,
             Starts(p, "token", None, None, t)
      PROVE  Typed'
  <2>1. "token" \in AllOps /\ "token" \notin AdminOps \cup EnrolOps
    BY DEF AllOps, AdminOps, EnrolOps
  <2>2. t \in Tokens
    BY <1>0, <1>6 DEF DataOK
  <2> QED BY <1>6, <2>1, <2>2, StartsTyped
<1> QED BY <1>1, <1>2, <1>3, <1>4, <1>5, <1>6
     DEF BeginAdmin, BeginEnrol, BeginLogin, BeginToken

(* An authenticator has signed fewer challenges than there are.              *)
LEMMA SignTyped ==
  ASSUME Typed, NEW n \in Challenges, NEW u \in Uids, NEW c \in Credentials, Sign(n, u, c)
  PROVE  Typed'
<1> DEFINE Before == {k \in Challenges : signed[k] # None /\ signed[k].cred = c}
           a == [uid |-> u, cred |-> c, count |-> Cardinality(Before) + 1]
<1>1. signed[n] = None /\ signed' = [signed EXCEPT ![n] = a]
      /\ UNCHANGED <<tables, memory, imports, pc, job, read, served, crashes,
                     history, calm>>
  BY DEF Sign
<1>2. a \in Assertions
  <2>1. IsFiniteSet(Challenges) /\ Cardinality(Challenges) = MaxChallenges
    BY FS_Interval, BoundsAssumption DEF Challenges
  <2>2. IsFiniteSet(Challenges \ {n}) /\ Cardinality(Challenges \ {n}) = MaxChallenges - 1
    BY <2>1, FS_RemoveElement
  <2>3. Before \subseteq Challenges \ {n}
    BY <1>1
  <2>4. Cardinality(Before) <= MaxChallenges - 1 /\ Cardinality(Before) \in Nat
    BY <2>2, <2>3, FS_Subset, FS_CardinalityType
  <2>5. Cardinality(Before) + 1 \in SignCounts
    BY <2>4, BoundsAssumption DEF SignCounts
  <2> QED BY <2>5 DEF Assertions
<1> HIDE DEF a
<1>3. DataOK /\ ControlOK /\ begun \in Nat
  BY DEF Typed, TypeOK, DataOK
<1>4. signed' \in [Challenges -> {None} \cup Assertions]
  BY <1>1, <1>2, <1>3 DEF DataOK
<1>5. DataOK' /\ ControlOK' /\ RowsHaveTokens' /\ imports' <= crashes' + 1
  BY <1>1, <1>3, <1>4
     DEF Typed, DataOK, ControlOK, RowsHaveTokens, tables, memory, history
<1>6. ASSUME NEW q \in Handlers PROVE JobFits(q)'
  BY <1>1, <1>3, OthersFit DEF Stays, memory, DataOK
<1> QED BY <1>5, <1>6 DEF Typed, TypeOK

LEMMA ImportTypes ==
  /\ Imported \in [Uids -> {"user", "admin", None}]
  /\ ImportedTokens \in [Uids -> Tokens \cup {None}]
  /\ ImportedKeys \in [Uids -> Keys]
  /\ \A u \in Uids : Imported[u] = None <=> ImportedTokens[u] = None
  /\ [u \in Uids |-> Held(ImportedKeys[u])] \in [Uids -> SUBSET Credentials]
<1>1. \A u \in Uids : Imported[u] = None <=> ImportedTokens[u] = None
  BY UsersAssumption, NoneAssumption DEF Imported, ImportedTokens
<1>2. ImportedKeys \in [Uids -> Keys]
  <2>1. 0 \in SignCounts
    BY BoundsAssumption DEF SignCounts
  <2> QED BY <2>1 DEF ImportedKeys, Keys
<1> QED BY <1>1, <1>2 DEF Imported, ImportedTokens, Tokens, Held

LEMMA RestartTyped ==
  ASSUME Typed, Restart
  PROVE  Typed'
<1>0. DataOK /\ RowsHaveTokens /\ imports <= crashes + 1 /\ MaxCrashes \in Nat
  BY BoundsAssumption DEF Typed, TypeOK
<1>1. ControlOK' /\ \A p \in Handlers : pc'[p] = "idle"
  BY NothingType DEF Restart, ImportDue, ImportUsers, ControlOK
<1>2. /\ users' \in [Uids -> {"user", "admin", None}]
      /\ tokens' \in [Uids -> Tokens \cup {None}]
      /\ passkeys' \in [Uids -> Keys]
      /\ enrolled' \in [Uids -> SUBSET Credentials] /\ RowsHaveTokens'
  BY <1>0, ImportTypes DEF Restart, ImportDue, ImportUsers, DataOK, tables, RowsHaveTokens
<1>3. /\ crashes' \in 0..MaxCrashes /\ imports' \in 1..(MaxCrashes + 1)
      /\ imports' <= crashes' + 1
  BY <1>0 DEF Restart, ImportDue, ImportUsers, DataOK, tables
<1>4. reg' \in [Uids -> Challenges \cup {None}] /\ logins' \subseteq Challenges
  BY DEF Restart, ImportDue, ImportUsers, Nobody
<1>5. DataOK'
  BY <1>0, <1>2, <1>3, <1>4 DEF Restart, ImportDue, ImportUsers, DataOK
<1>6. \A p \in Handlers : JobFits(p)'
  BY <1>1, IdleFits DEF JobFits, AtAdmin, AtFinish, Reading, AtAssert, Counting
<1> QED BY <1>1, <1>2, <1>3, <1>5, <1>6 DEF Typed, TypeOK

LEMMA TypedInit == Init => Typed
<1> SUFFICES ASSUME Init PROVE Typed
  OBVIOUS
<1>1. DataOK /\ ControlOK
  BY ImportTypes, NothingType, BoundsAssumption
     DEF Init, DataOK, ControlOK, Nobody
<1>2. \A p \in Handlers : JobFits(p)
  BY IdleFits DEF Init
<1> QED BY <1>1, <1>2, ImportTypes DEF Init, Typed, TypeOK, RowsHaveTokens

(* Every step keeps the types.                                               *)
LEMMA TypedStep == Typed /\ [Next]_vars => Typed'
<1> SUFFICES ASSUME Typed, [Next]_vars PROVE Typed'
  OBVIOUS
<1>1. ASSUME NEW p \in Handlers, StoreFails(p) PROVE Typed'
  BY <1>1, SameData, DoneTyped DEF StoreFails, From, Frame
<1>2. CASE UNCHANGED vars
  <2>1. DataOK' /\ ControlOK' /\ RowsHaveTokens' /\ imports' <= crashes' + 1
    BY <1>2 DEF Typed, TypeOK, DataOK, ControlOK, RowsHaveTokens, vars, tables, memory, history
  <2>2. ASSUME NEW q \in Handlers PROVE JobFits(q)'
    BY <1>2, OthersFit DEF Stays, vars, memory, Typed, TypeOK, DataOK
  <2> QED BY <2>1, <2>2 DEF Typed, TypeOK
<1> QED BY <1>1, <1>2, BeginTyped, AdminTyped, EnrolTyped, LoginTyped, SignTyped,
     RestartTyped DEF Next, Step

-----------------------------------------------------------------------------
(* What a step changes.                                                      *)

Works(p) == AdminStep(p) \/ EnrolStep(p) \/ LoginStep(p) \/ StoreFails(p)

(* A request at work goes on with its job or is done.                        *)
LEMMA WorksMoves ==
  ASSUME Typed, NEW p \in Handlers, Works(p)
  PROVE  /\ pc[p] # "idle" /\ (pc'[p] # "idle" => job'[p] = job[p])
         /\ \A q \in Handlers \ {p} : Stays(q)
         /\ UNCHANGED <<calm, imports>>
<1> USE DEF From
<1>0. ControlOK
  BY DEF Typed, TypeOK
<1>1. ASSUME NEW l, Goto(p, l), pc[p] # "idle", UNCHANGED <<calm, imports>>
      PROVE  /\ pc[p] # "idle" /\ (pc'[p] # "idle" => job'[p] = job[p])
             /\ \A q \in Handlers \ {p} : Stays(q)
             /\ UNCHANGED <<calm, imports>>
  BY <1>0, <1>1, GotoMoves
<1>2. ASSUME NEW l, NEW k, Reads(p, l, k), pc[p] # "idle", UNCHANGED <<calm, imports>>
      PROVE  /\ pc[p] # "idle" /\ (pc'[p] # "idle" => job'[p] = job[p])
             /\ \A q \in Handlers \ {p} : Stays(q)
             /\ UNCHANGED <<calm, imports>>
  BY <1>0, <1>2, WorkMoves DEF Reads
<1>3. Done(p) => Goto(p, "idle")
  BY DEF Goto
<1>4. CASE AdminStep(p)
  BY <1>1, <1>3, <1>4 DEF AdminStep, AdminCheck, DeleteLooksUp, DropUser, CreateUser,
       RotateLooksUp, RotateToken, RotateFails
<1>5. CASE EnrolStep(p)
  BY <1>1, <1>2, <1>3, <1>5 DEF EnrolStep, RegisterBegin, RegisterRefused, FinishReads,
       FinishVerifies, FinishForgets, CountsUser, ReplacePasskeys, RollsBack
<1>6. CASE LoginStep(p)
  BY <1>1, <1>2, <1>3, <1>6 DEF LoginStep, LoginBegin, LoginLooksUp, LoginVerifies,
       LoginForgets, CountCompares, CountUpdates, CountFails, TokenLooksUp, SetSession
<1>7. CASE StoreFails(p)
  <2>1. pc[p] # "idle"
    BY <1>7 DEF StoreFails
  <2> QED BY <1>1, <1>3, <1>7, <2>1 DEF StoreFails
<1> QED BY <1>4, <1>5, <1>6, <1>7 DEF Works

(* Where the tables are written.                                             *)
LEMMA WorksWrites ==
  ASSUME NEW p \in Handlers, Works(p)
  PROVE  /\ \/ UNCHANGED <<users, passkeys, enrolled>>
            \/ DropUser(p) \/ CreateUser(p) \/ ReplacePasskeys(p) \/ CountUpdates(p)
         /\ \/ UNCHANGED <<tokens, retired>>
            \/ DropUser(p) \/ CreateUser(p) \/ RotateToken(p)
BY DEF Works, AdminStep, AdminCheck, DeleteLooksUp, RotateLooksUp, RotateToken,
   RotateFails, RotateError, EnrolStep, RegisterBegin, RegisterRefused, FinishReads,
   FinishVerifies, FinishForgets, CountsUser, RollsBack, LoginStep, LoginBegin,
   LoginLooksUp, LoginVerifies, LoginForgets, CountCompares, CountFails,
   TokenLooksUp, SetSession, StoreFails, ReplacePasskeys, CountUpdates, tables, history

(* A request that begins writes nothing, and the kinds it overlaps with are  *)
(* known.                                                                    *)
Begins(p, op) ==
  \E caller, uid, arg \in Uids \cup Tokens \cup Challenges \cup {None} :
    /\ Starts(p, op, caller, uid, arg)
    /\ op = "token" => arg # None

LEMMA BeginsOne ==
  ASSUME Typed, NEW p \in Handlers,
         BeginAdmin(p) \/ BeginEnrol(p) \/ BeginLogin(p) \/ BeginToken(p)
  PROVE  \E op \in AllOps : Begins(p, op)
<1>1. /\ \A u \in Uids : tokens[u] \in Tokens \cup {None}
      /\ retired \subseteq Tokens /\ 1..begun \subseteq Challenges
      /\ \A n \in Challenges : signed[n] # None => signed[n].uid \in Uids
  BY BoundsAssumption DEF Typed, TypeOK, DataOK, Challenges, Assertions
<1>2. CASE BeginAdmin(p)
  BY <1>2 DEF BeginAdmin, Begins, AdminOps, AllOps
<1>3. CASE BeginEnrol(p)
  <2>1. ASSUME NEW u \in Uids, Starts(p, "begin", u, u, None)
        PROVE  Begins(p, "begin")
    BY <2>1 DEF Begins
  <2>2. ASSUME NEW u \in Uids, NEW n \in 1..begun, Starts(p, "finish", u, u, n)
        PROVE  Begins(p, "finish")
    <3>1. n \in Challenges
      BY <1>1
    <3> QED BY <2>2, <3>1 DEF Begins
  <2> QED BY <1>3, <2>1, <2>2 DEF BeginEnrol, EnrolOps, AllOps
<1>4. CASE BeginLogin(p)
  BY <1>1, <1>4 DEF BeginLogin, Begins, LoginOps, AllOps
<1>5. CASE BeginToken(p)
  <2>1. PICK t \in retired \cup {tokens[u] : u \in Uids} :
          t # None /\ Starts(p, "token", None, None, t)
    BY <1>5 DEF BeginToken
  <2>2. t \in Tokens \cup {None}
    BY <1>1
  <2>3. Begins(p, "token")
    BY <2>1, <2>2 DEF Begins
  <2> QED BY <2>3 DEF AllOps
<1> QED BY <1>2, <1>3, <1>4, <1>5

LEMMA BeginsMoves ==
  ASSUME Typed, NEW p \in Handlers, NEW op \in AllOps, Begins(p, op)
  PROVE  /\ pc'[p] = (IF op \in AdminOps THEN "admin" ELSE op) /\ job'[p].op = op
         /\ op = "token" => job'[p].fresh \/ job'[p].arg \in retired
         /\ \A q \in Handlers \ {p} : Stays(q)
         /\ UNCHANGED <<tables, memory, signed, imports, history>>
         /\ calm' \subseteq calm
         /\ \A q \in Handlers \ {p} :
              pc[q] # "idle" => calm' \cap Kinds(op, job[q].op) = {}
<1>1. PICK caller, uid, arg \in Uids \cup Tokens \cup Challenges \cup {None} :
        Starts(p, op, caller, uid, arg)
  BY DEF Begins
<1>2. ControlOK
  BY DEF Typed, TypeOK
<1>3. /\ pc'[p] = (IF op \in AdminOps THEN "admin" ELSE op)
      /\ job'[p] = Job(op, caller, uid, arg, arg \notin retired)
      /\ \A q \in Handlers \ {p} : Stays(q)
  BY <1>1, <1>2, WorkMoves DEF Starts
<1>4. job'[p].op = op /\ job'[p].arg = arg /\ job'[p].fresh = (arg \notin retired)
  BY <1>3 DEF Job
<1>5. UNCHANGED <<tables, memory, signed, imports, history>> /\ pc[p] = "idle"
  BY <1>1 DEF Starts
<1>6. calm' = calm \ UNION {Kinds(op, job[q].op) : q \in {q \in Handlers : pc[q] # "idle"}}
  BY <1>1 DEF Starts
<1>7. \A q \in Handlers : pc[q] # "idle" => calm' \cap Kinds(op, job[q].op) = {}
  BY <1>6, Zenon
<1>8. calm' \subseteq calm
  BY <1>6, Zenon
<1> QED BY <1>3, <1>4, <1>5, <1>7, <1>8

(* The steps, as far as an invariant needs to tell them apart.               *)
LEMMA NextCases ==
  ASSUME Typed, Next
  PROVE  \/ \E p \in Handlers : Works(p)
         \/ \E p \in Handlers, op \in AllOps : Begins(p, op)
         \/ Restart
         \/ \E n \in Challenges, u \in Uids, c \in Credentials : Sign(n, u, c)
BY BeginsOne DEF Next, Step, Works

(* After a restart no request is in flight.                                  *)
LEMMA RestartIdle ==
  ASSUME Restart
  PROVE  /\ \A p \in Handlers : pc'[p] = "idle"
         /\ UNCHANGED <<calm, begun, retired, answered>>
         /\ \A u \in Uids : reg'[u] = None
         /\ logins' = {}
BY DEF Restart, ImportDue, ImportUsers, Nobody

LEMMA SignQuiet ==
  ASSUME NEW n, NEW u, NEW c, Sign(n, u, c)
  PROVE  UNCHANGED <<tables, memory, imports, pc, job, read, history, calm>>
BY DEF Sign

-----------------------------------------------------------------------------
(* No passkey outlives its user.                                             *)
LEMMA KeysStep == Typed /\ PasskeysHaveUser /\ [Next]_vars => PasskeysHaveUser'
<1> SUFFICES ASSUME Typed, PasskeysHaveUser, [Next]_vars PROVE PasskeysHaveUser'
  OBVIOUS
<1> USE DEF PasskeysHaveUser
<1>0. DataOK
  BY DEF Typed, TypeOK
<1>1. CASE UNCHANGED <<users, passkeys>>
  BY <1>1
<1>2. ASSUME NEW p \in Handlers, DropUser(p) PROVE PasskeysHaveUser'
  BY <1>0, <1>2 DEF DropUser, DataOK
<1>3. ASSUME NEW p \in Handlers, CreateUser(p) PROVE PasskeysHaveUser'
  BY <1>0, <1>3 DEF CreateUser, DataOK
<1>4. ASSUME NEW p \in Handlers, ReplacePasskeys(p) PROVE PasskeysHaveUser'
  BY <1>0, <1>4 DEF ReplacePasskeys, ReferenceHolds, DataOK
<1>5. ASSUME NEW p \in Handlers, CountUpdates(p) PROVE PasskeysHaveUser'
  <2> SUFFICES ASSUME NEW u \in Uids, users'[u] = None PROVE passkeys'[u] = Nothing
    OBVIOUS
  <2>1. users[u] = None /\ passkeys[u] = Nothing
    BY <1>5 DEF CountUpdates
  <2>2. passkeys'[u] \in [Credentials -> SignCounts \cup {None}]
    BY <1>5, TypedStep DEF Typed, TypeOK, DataOK, Keys
  <2>3. \A c \in Credentials : passkeys'[u][c] = None
    BY <1>0, <1>5, <2>1 DEF CountUpdates, DataOK, Keys, Nothing
  <2> QED BY <2>2, <2>3 DEF Nothing
<1>6. ASSUME NEW p \in Handlers, Works(p) PROVE PasskeysHaveUser'
  BY <1>1, <1>2, <1>3, <1>4, <1>5, <1>6, WorksWrites
<1>7. ASSUME NEW p \in Handlers, NEW op \in AllOps, Begins(p, op)
      PROVE  PasskeysHaveUser'
  BY <1>1, <1>7, BeginsMoves DEF tables
<1>8. CASE Restart
  <2>1. ASSUME NEW u \in Uids, Imported[u] = None PROVE ImportedKeys[u] = Nothing
    BY <2>1, NoneAssumption, UsersAssumption DEF Imported, ImportedKeys, Nothing
  <2> QED BY <1>1, <1>8, <2>1 DEF Restart, ImportDue, ImportUsers, tables
<1> QED BY <1>1, <1>6, <1>7, <1>8, NextCases, SignQuiet DEF tables, vars

-----------------------------------------------------------------------------
(* One request of a kind.                                                    *)
LEMMA AloneStep ==
  ASSUME Typed, NEW kind, NEW ops, Alone(kind, ops), [Next]_vars,
         \A o, q \in ops : kind \in Kinds(o, q)
  PROVE  Alone(kind, ops)'
<1> SUFFICES ASSUME kind \in calm', NEW p \in Handlers, NEW q \in Handlers,
                    Busy(p, ops)', Busy(q, ops)'
             PROVE  p = q
  BY DEF Alone
<1>1. ASSUME kind \in calm, Busy(p, ops), Busy(q, ops) PROVE p = q
  BY <1>1 DEF Alone
<1>2. ASSUME NEW r \in Handlers, Works(r) PROVE p = q
  BY <1>1, <1>2, WorksMoves DEF Busy, Stays
<1>3. ASSUME NEW r \in Handlers, NEW op \in AllOps, Begins(r, op) PROVE p = q
  <2>1. /\ kind \in calm /\ job'[r].op = op /\ \A s \in Handlers \ {r} : Stays(s)
        /\ \A s \in Handlers \ {r} : pc[s] # "idle" => kind \notin Kinds(op, job[s].op)
    BY <1>3, BeginsMoves
  <2>2. CASE p # r /\ q # r
    BY <1>1, <2>1, <2>2 DEF Busy, Stays
  <2>3. CASE p = r /\ q # r
    BY <2>1, <2>3 DEF Busy, Stays
  <2>4. CASE p # r /\ q = r
    BY <2>1, <2>4 DEF Busy, Stays
  <2> QED BY <2>2, <2>3, <2>4
<1>4. CASE Restart
  BY <1>4, RestartIdle DEF Busy
<1>5. CASE UNCHANGED <<pc, job, calm>>
  BY <1>1, <1>5 DEF Busy
<1> QED BY <1>2, <1>3, <1>4, <1>5, NextCases, SignQuiet DEF vars

LEMMA AllAloneStep == Typed /\ AllAlone /\ [Next]_vars => AllAlone'
<1>1. /\ \A o, q \in AdminOps : "admin" \in Kinds(o, q)
      /\ \A o, q \in EnrolOps : "enrol" \in Kinds(o, q)
      /\ \A o, q \in LoginOps : "login" \in Kinds(o, q)
  BY DEF Kinds
<1> QED BY <1>1, AloneStep DEF AllAlone

-----------------------------------------------------------------------------
(* The ways through the handlers.                                            *)

Goes(p, l, m) == pc[p] = l /\ pc'[p] = m
Same(p) == job'[p] = job[p] /\ read'[p] = read[p]
AdminGoes(p) ==
  \/ AdminCheck(p) /\ pc[p] = "admin" /\ users[job[p].caller] = "admin"
     /\ pc'[p] = job[p].op /\ job[p].op \in AdminOps
  \/ DeleteLooksUp(p) /\ Goes(p, "delete", "drop")
  \/ RotateLooksUp(p) /\ Goes(p, "rotate", "renew")
EnrolGoes(p) ==
  \/ FinishVerifies(p) /\ Goes(p, "ceremony", "forget") /\ reg[Uid(p)] = Arg(p)
  \/ FinishForgets(p) /\ Goes(p, "forget", "count")
  \/ CountsUser(p) /\ Goes(p, "count", "replace")
LoginGoes(p) ==
  \/ LoginLooksUp(p) /\ Goes(p, "assert", "verify") /\ Arg(p) \in logins
  \/ LoginForgets(p) /\ Goes(p, "spend", "compare")
  \/ CountCompares(p) /\ pc[p] = "compare" /\ pc'[p] \in {"store", "session"}
  \/ CountUpdates(p) /\ Goes(p, "store", "session")
  \/ CountFails(p) /\ pc[p] \in {"compare", "store"} /\ pc'[p] = "session"
  \/ TokenLooksUp(p) /\ Goes(p, "token", "session")
     /\ \E u \in Uids : tokens[u] = Arg(p)

LEMMA WorksFlow ==
  ASSUME Typed, NEW p \in Handlers, Works(p), pc'[p] # "idle"
  PROVE  \/ FinishReads(p) /\ Goes(p, "finish", "ceremony")
            /\ read'[p] = passkeys[Uid(p)]
         \/ LoginVerifies(p) /\ Goes(p, "verify", "spend")
         \/ Same(p) /\ (AdminGoes(p) \/ EnrolGoes(p) \/ LoginGoes(p))
<1> USE DEF Goes, Same
<1>0. ControlOK /\ JobFits(p)
  BY DEF Typed, TypeOK
<1>1. ASSUME NEW l, Goto(p, l) PROVE l # "idle" /\ pc'[p] = l /\ Same(p)
  BY <1>0, <1>1, GotoMoves
<1>2. ~Done(p)
  BY <1>0, WorkMoves DEF Done
<1>3. ASSUME NEW l, NEW k, Reads(p, l, k) PROVE pc'[p] = l /\ read'[p] = k
  BY <1>0, <1>3, WorkMoves DEF Reads
<1>4. CASE AdminStep(p)
  <2>1. AdminCheck(p) \/ DeleteLooksUp(p) \/ RotateLooksUp(p)
    BY <1>2, <1>4 DEF AdminStep, DropUser, CreateUser, RotateToken, RotateFails
  <2>2. CASE AdminCheck(p)
    BY <1>0, <1>1, <2>2 DEF AdminCheck, From, JobFits, AtAdmin, AdminGoes
  <2>3. CASE DeleteLooksUp(p)
    BY <1>1, <2>3 DEF DeleteLooksUp, From, AdminGoes
  <2>4. CASE RotateLooksUp(p)
    BY <1>1, <2>4 DEF RotateLooksUp, From, AdminGoes
  <2> QED BY <2>1, <2>2, <2>3, <2>4
<1>5. CASE EnrolStep(p)
  <2>1. FinishReads(p) \/ FinishVerifies(p) \/ FinishForgets(p) \/ CountsUser(p)
    BY <1>2, <1>5 DEF EnrolStep, RegisterBegin, RegisterRefused, ReplacePasskeys, RollsBack
  <2>2. CASE FinishReads(p)
    BY <1>2, <1>3, <2>2 DEF FinishReads, From
  <2>3. CASE FinishVerifies(p)
    BY <1>1, <2>3 DEF FinishVerifies, From, EnrolGoes
  <2>4. CASE FinishForgets(p)
    BY <1>1, <2>4 DEF FinishForgets, From, EnrolGoes
  <2>5. CASE CountsUser(p)
    BY <1>1, <2>5 DEF CountsUser, From, EnrolGoes
  <2> QED BY <2>1, <2>2, <2>3, <2>4, <2>5
<1>6. CASE LoginStep(p)
  <2>1. \/ LoginLooksUp(p) \/ LoginVerifies(p) \/ LoginForgets(p) \/ CountCompares(p)
        \/ CountUpdates(p) \/ CountFails(p) \/ TokenLooksUp(p)
    BY <1>2, <1>6 DEF LoginStep, LoginBegin, SetSession
  <2>2. CASE LoginLooksUp(p)
    BY <1>1, <2>2 DEF LoginLooksUp, From, LoginGoes
  <2>3. CASE LoginVerifies(p)
    BY <1>2, <1>3, <2>3 DEF LoginVerifies, From
  <2>4. CASE LoginForgets(p)
    BY <1>1, <2>4 DEF LoginForgets, From, LoginGoes
  <2>5. CASE CountCompares(p)
    BY <1>1, <2>5 DEF CountCompares, From, LoginGoes
  <2>6. CASE CountUpdates(p)
    BY <1>1, <2>6 DEF CountUpdates, From, LoginGoes
  <2>7. CASE CountFails(p)
    BY <1>1, <2>7 DEF CountFails, From, LoginGoes
  <2>8. CASE TokenLooksUp(p)
    BY <1>1, <2>8 DEF TokenLooksUp, From, LoginGoes
  <2> QED BY <2>1, <2>2, <2>3, <2>4, <2>5, <2>6, <2>7, <2>8
<1>7. ~StoreFails(p)
  BY <1>2 DEF StoreFails
<1> QED BY <1>4, <1>5, <1>6, <1>7 DEF Works

-----------------------------------------------------------------------------
(* Admins.                                                                   *)

LEMMA OthersStep == Typed /\ OthersGo /\ [Next]_vars => OthersGo'
<1> SUFFICES ASSUME Typed, OthersGo, [Next]_vars, NEW q \in Handlers, pc'[q] = "drop"
             PROVE  OtherAccount(q)'
  BY DEF OthersGo
<1> USE DEF OthersGo, OtherAccount, Uid
<1>1. CASE Stays(q)
  BY <1>1 DEF Stays
<1>2. ASSUME Works(q) PROVE OtherAccount(q)'
  <2>1. DeleteLooksUp(q) /\ Goes(q, "delete", "drop") /\ job'[q] = job[q]
    BY <1>2, WorksFlow DEF AdminGoes, EnrolGoes, LoginGoes, Goes, Same, AdminOps
  <2>2. ASSUME Goto(q, "idle") PROVE FALSE
    BY <2>2, GotoMoves DEF Typed, TypeOK
  <2> QED BY <2>1, <2>2 DEF DeleteLooksUp
<1>3. ASSUME NEW op \in AllOps, Begins(q, op) PROVE FALSE
  BY <1>3, BeginsMoves DEF AllOps, AdminOps, EnrolOps, LoginOps
<1>4. CASE Restart
  BY <1>4, RestartIdle
<1>5. CASE UNCHANGED <<pc, job, read>>
  BY <1>1, <1>5 DEF Stays
<1> QED BY <1>1, <1>2, <1>3, <1>4, <1>5, NextCases, WorksMoves, BeginsMoves, SignQuiet
     DEF vars

LEMMA AdminInvStep ==
  Typed /\ AllAlone /\ OthersGo /\ AdminInv /\ [Next]_vars => AdminInv'
<1> SUFFICES ASSUME Typed, AllAlone, OthersGo, AdminInv, [Next]_vars, "admin" \in calm'
             PROVE  /\ YamlAdmins # {} => \E u \in Uids : users'[u] = "admin"
                    /\ \A q \in Handlers :
                         pc'[q] \in Checked => users'[job'[q].caller] = "admin"
  BY DEF AdminInv
<1>0. DataOK /\ \A p \in Handlers : JobFits(p)
  BY DEF Typed, TypeOK
<1>1. ASSUME "admin" \in calm, UNCHANGED users, NEW q \in Handlers, pc'[q] \in Checked,
             Stays(q)
      PROVE  users'[job'[q].caller] = "admin"
  BY <1>1 DEF AdminInv, Stays
<1>2. ASSUME NEW p \in Handlers, Works(p)
      PROVE  /\ YamlAdmins # {} => \E u \in Uids : users'[u] = "admin"
             /\ \A q \in Handlers : pc'[q] \in Checked => users'[job'[q].caller] = "admin"
  <2>0. "admin" \in calm /\ \A q \in Handlers \ {p} : Stays(q)
    BY <1>2, WorksMoves
  <2>1. CASE UNCHANGED users
    <3>1. ASSUME pc'[p] \in Checked
          PROVE  users[job[p].caller] = "admin" /\ job'[p] = job[p]
      <4>1. Same(p) /\ AdminGoes(p)
        BY <1>2, <3>1, WorksFlow DEF EnrolGoes, LoginGoes, Goes, Checked
      <4> QED BY <2>0, <4>1 DEF AdminGoes, AdminInv, Same, Checked, Goes
    <3>2. \A q \in Handlers : pc'[q] \in Checked => users'[job'[q].caller] = "admin"
      BY <1>1, <2>0, <2>1, <3>1
    <3> QED BY <2>0, <2>1, <3>2 DEF AdminInv
  <2>2. CASE DropUser(p) \/ CreateUser(p)
    <3>1. /\ pc[p] \in Checked /\ job[p].op \in AdminOps /\ job[p].caller \in Uids
          /\ Uid(p) \in Uids /\ pc[p] # "idle"
      BY <1>0, <2>2 DEF DropUser, CreateUser, From, JobFits, AtAdmin, Checked
    <3>2. users[job[p].caller] = "admin"
      BY <2>0, <3>1 DEF AdminInv
    <3>3. users'[job[p].caller] = "admin"
      <4>1. CASE DropUser(p)
        BY <1>0, <3>1, <3>2, <4>1 DEF DropUser, From, OthersGo, OtherAccount, DataOK
      <4>2. CASE CreateUser(p)
        BY <1>0, <3>1, <3>2, <4>2, NoneAssumption DEF CreateUser, DataOK
      <4> QED BY <2>2, <4>1, <4>2
    <3>4. pc'[p] = "idle"
      BY <2>2, WorkMoves DEF DropUser, CreateUser, Done, Typed, TypeOK
    <3>5. ASSUME NEW q \in Handlers \ {p}, pc'[q] \in Checked PROVE FALSE
      <4>1. pc[q] \in Checked /\ job[q].op \in AdminOps
        BY <1>0, <2>0, <3>5 DEF Stays, JobFits, AtAdmin, Checked
      <4>2. Busy(p, AdminOps) /\ Busy(q, AdminOps)
        BY <3>1, <4>1 DEF Busy, Checked
      <4> QED BY <2>0, <4>2 DEF AllAlone, Alone
    <3> QED BY <3>1, <3>3, <3>4, <3>5 DEF Checked
  <2>3. CASE ReplacePasskeys(p) \/ CountUpdates(p)
    BY <2>1, <2>3 DEF ReplacePasskeys, CountUpdates
  <2> QED BY <1>2, <2>1, <2>2, <2>3, WorksWrites
<1>3. ASSUME NEW p \in Handlers, NEW op \in AllOps, Begins(p, op)
      PROVE  /\ YamlAdmins # {} => \E u \in Uids : users'[u] = "admin"
             /\ \A q \in Handlers : pc'[q] \in Checked => users'[job'[q].caller] = "admin"
  <2>1. /\ "admin" \in calm /\ UNCHANGED users /\ \A q \in Handlers \ {p} : Stays(q)
        /\ pc'[p] = (IF op \in AdminOps THEN "admin" ELSE op)
    BY <1>3, BeginsMoves DEF tables
  <2>2. pc'[p] \notin Checked
    BY <2>1 DEF Checked, AllOps, AdminOps, EnrolOps, LoginOps
  <2> QED BY <1>1, <2>1, <2>2 DEF AdminInv
<1>4. CASE Restart
  <2>1. users' = users \/ users' = Imported
    BY <1>4 DEF Restart, ImportDue, ImportUsers, tables
  <2>2. YamlAdmins # {} => \E u \in Uids : Imported[u] = "admin"
    BY UsersAssumption DEF Imported
  <2> QED BY <1>4, <2>1, <2>2, RestartIdle DEF AdminInv, Checked
<1>5. CASE UNCHANGED <<users, pc, job, read, calm>>
  BY <1>1, <1>5 DEF Stays, AdminInv
<1> QED BY <1>2, <1>3, <1>4, <1>5, NextCases, SignQuiet DEF vars, tables

-----------------------------------------------------------------------------
(* Enrolments.                                                               *)

LEMMA EnrolInvStep ==
  Typed /\ AllAlone /\ EnrolInv /\ [Next]_vars => EnrolInv'
<1> SUFFICES ASSUME Typed, AllAlone, EnrolInv, [Next]_vars, "enrol" \in calm'
             PROVE  /\ \A u \in Uids : enrolled'[u] \subseteq Held(passkeys'[u])
                    /\ \A q \in Handlers : pc'[q] \in Reading =>
                         enrolled'[job'[q].uid] \subseteq Held(read'[q])
  BY DEF EnrolInv, Uid, Held
<1>0. DataOK /\ ControlOK /\ \A p \in Handlers : JobFits(p)
  BY DEF Typed, TypeOK
<1> DEFINE Kept == \A u \in Uids : enrolled'[u] \subseteq Held(passkeys'[u])
           Read(q) == pc'[q] \in Reading => enrolled'[job'[q].uid] \subseteq Held(read'[q])
<1>1. ASSUME "enrol" \in calm, UNCHANGED enrolled, NEW q \in Handlers, Stays(q)
      PROVE  Read(q)
  BY <1>1 DEF EnrolInv, Stays, Uid
<1>2. ASSUME "enrol" \in calm, UNCHANGED <<enrolled, passkeys>> PROVE Kept
  BY <1>2 DEF EnrolInv
<1>3. ASSUME NEW p \in Handlers, Works(p) PROVE Kept /\ \A q \in Handlers : Read(q)
  <2>0. "enrol" \in calm /\ \A q \in Handlers \ {p} : Stays(q)
    BY <1>3, WorksMoves
  <2>1. CASE UNCHANGED enrolled
    <3>1. Read(p)
      <4> SUFFICES ASSUME pc'[p] \in Reading
                   PROVE  enrolled'[job'[p].uid] \subseteq Held(read'[p])
        OBVIOUS
      <4>1. \/ FinishReads(p) /\ Goes(p, "finish", "ceremony")
               /\ read'[p] = passkeys[Uid(p)]
            \/ Same(p) /\ EnrolGoes(p)
        BY <1>3, WorksFlow DEF AdminGoes, LoginGoes, Goes, Reading, AdminOps
      <4>2. job'[p] = job[p] /\ Uid(p) \in Uids
        BY <1>0, <1>3, <4>1, WorksMoves
           DEF EnrolGoes, Goes, JobFits, AtFinish, Reading
      <4>3. CASE read'[p] = passkeys[Uid(p)]
        BY <2>0, <2>1, <4>2, <4>3 DEF EnrolInv, Uid
      <4>4. CASE Same(p) /\ EnrolGoes(p)
        BY <2>0, <2>1, <4>2, <4>4 DEF EnrolInv, Uid, Same, EnrolGoes, Goes, Reading
      <4> QED BY <4>1, <4>3, <4>4
    <3>2. \A q \in Handlers : Read(q)
      BY <1>1, <2>0, <2>1, <3>1
    <3>3. CASE UNCHANGED passkeys
      BY <1>2, <2>0, <2>1, <3>2, <3>3
    <3>4. CASE ~UNCHANGED passkeys
      <4>1. CountUpdates(p) \/ DropUser(p) \/ ReplacePasskeys(p)
        BY <1>3, <3>4, WorksWrites DEF CreateUser
      <4>2. CASE CountUpdates(p)
        <5>1. \A u \in Uids : Held(passkeys[u]) \subseteq Held(passkeys'[u])
          <6>1. pc[p] \in Counting /\ NewCount(p) # None /\ Asserts(p)
            <7>1. /\ pc[p] \in Counting /\ Asserts(p) /\ read[p] \in Keys
                  /\ read[p][signed[Arg(p)].cred] # None
              BY <1>0, <4>2
                 DEF CountUpdates, From, Counting, JobFits, AtAssert, ControlOK
            <7>2. signed[Arg(p)] \in Assertions
              BY <1>0, <7>1 DEF Asserts, DataOK
            <7>3. signed[Arg(p)].count # None
              BY <7>2, NoneAssumption DEF Assertions, SignCounts
            <7> QED BY <7>1, <7>3 DEF NewCount, Signed, KnownCount
          <6> QED BY <1>0, <4>2, <6>1 DEF CountUpdates, Held, DataOK, Keys
        <5> QED BY <2>0, <2>1, <3>2, <5>1 DEF EnrolInv
      <4>3. CASE DropUser(p)
        BY <1>0, <2>0, <3>2, <4>3 DEF DropUser, EnrolInv, DataOK
      <4>4. CASE ReplacePasskeys(p)
        <5>1. /\ Uid(p) \in Uids /\ Arg(p) \in Credentials /\ pc[p] \in Reading
              /\ read[p] \in Keys
          BY <1>0, <4>4, BoundsAssumption
             DEF ReplacePasskeys, From, JobFits, AtFinish, Reading, DataOK, Credentials,
                 ControlOK
        <5>2. enrolled[Uid(p)] \cup {Arg(p)} \subseteq Held(Collected(p))
          BY <2>0, <5>1, NoneAssumption DEF EnrolInv, Held, Collected, Keys
        <5> QED BY <1>0, <2>0, <3>2, <4>4, <5>1, <5>2
                DEF ReplacePasskeys, EnrolInv, DataOK
      <4> QED BY <4>1, <4>2, <4>3, <4>4
    <3> QED BY <3>3, <3>4
  <2>2. CASE ~UNCHANGED enrolled
    <3>1. DropUser(p) \/ ReplacePasskeys(p)
      BY <1>3, <2>2, WorksWrites DEF CreateUser, CountUpdates, history
    <3>2. pc'[p] = "idle"
      BY <1>0, <3>1, WorkMoves DEF DropUser, ReplacePasskeys, Done
    <3>3. Read(p)
      BY <3>2 DEF Reading
    <3>4. CASE DropUser(p)
      <4>1. \A u \in Uids : enrolled'[u] \subseteq enrolled[u]
        BY <1>0, <3>4 DEF DropUser, DataOK
      <4>2. \A u \in Uids : enrolled'[u] = {} \/ passkeys'[u] = passkeys[u]
        BY <1>0, <3>4 DEF DropUser, DataOK
      <4>3. Kept
        BY <2>0, <4>1, <4>2 DEF EnrolInv
      <4>4. ASSUME NEW q \in Handlers \ {p}, pc'[q] \in Reading
            PROVE  enrolled'[job'[q].uid] \subseteq Held(read'[q])
        BY <1>0, <2>0, <4>1, <4>4 DEF EnrolInv, Stays, Uid, JobFits, AtFinish
      <4> QED BY <3>3, <4>3, <4>4
    <3>5. CASE ReplacePasskeys(p)
      <4>1. /\ Uid(p) \in Uids /\ Arg(p) \in Credentials /\ pc[p] \in Reading
            /\ read[p] \in Keys /\ Busy(p, EnrolOps)
        BY <1>0, <3>5, BoundsAssumption
           DEF ReplacePasskeys, From, JobFits, AtFinish, Reading, DataOK, Credentials,
               ControlOK, Busy, EnrolOps
      <4>2. enrolled[Uid(p)] \cup {Arg(p)} \subseteq Held(Collected(p))
        BY <2>0, <4>1, NoneAssumption DEF EnrolInv, Held, Collected, Keys
      <4>3. Kept
        BY <1>0, <2>0, <3>5, <4>1, <4>2 DEF ReplacePasskeys, EnrolInv, DataOK
      <4>4. ASSUME NEW q \in Handlers \ {p}, pc'[q] \in Reading PROVE FALSE
        <5>1. Busy(q, EnrolOps)
          BY <1>0, <2>0, <4>4 DEF Stays, Busy, JobFits, AtFinish, Reading, EnrolOps
        <5> QED BY <2>0, <4>1, <5>1 DEF AllAlone, Alone
      <4> QED BY <3>3, <4>3, <4>4
    <3> QED BY <3>1, <3>4, <3>5
  <2> QED BY <2>1, <2>2
<1>4. ASSUME NEW p \in Handlers, NEW op \in AllOps, Begins(p, op)
      PROVE  Kept /\ \A q \in Handlers : Read(q)
  <2>1. /\ "enrol" \in calm /\ UNCHANGED <<passkeys, enrolled>>
        /\ \A q \in Handlers \ {p} : Stays(q)
        /\ pc'[p] = (IF op \in AdminOps THEN "admin" ELSE op)
    BY <1>4, BeginsMoves DEF tables, history
  <2>2. pc'[p] \notin Reading
    BY <2>1 DEF Reading, AllOps, AdminOps, EnrolOps, LoginOps
  <2> QED BY <1>1, <1>2, <2>1, <2>2
<1>5. CASE Restart
  BY <1>2, <1>5, RestartIdle DEF Restart, ImportDue, ImportUsers, Reading, Held, tables
<1>6. CASE UNCHANGED <<enrolled, passkeys, pc, job, read, calm>>
  BY <1>1, <1>2, <1>6 DEF Stays
<1> QED BY <1>3, <1>4, <1>5, <1>6, NextCases, SignQuiet DEF vars, tables, history

-----------------------------------------------------------------------------
(* Tokens.                                                                   *)

LEMMA TokensInvStep == Typed /\ TokensInv /\ [Next]_vars => TokensInv'
<1> DEFINE T1 == \A u \in Uids : tokens[u] # None => tokens[u] \notin retired
           T2 == \A u, v \in Uids : tokens[u] = tokens[v] => u = v \/ tokens[u] = None
           T3(p) == /\ pc[p] = "token" => job[p].fresh \/ Arg(p) \in retired
                    /\ pc[p] = "session" /\ job[p].op = "token" => job[p].fresh
<1> SUFFICES ASSUME Typed, TokensInv, [Next]_vars, imports' = 1
             PROVE  T1' /\ T2' /\ \A p \in Handlers : T3(p)'
  BY DEF TokensInv
<1>0. DataOK /\ ControlOK /\ (\A p \in Handlers : JobFits(p)) /\ None \notin Tokens
  BY NoneAssumption, BoundsAssumption DEF Typed, TypeOK, Tokens
<1>a. ASSUME imports = 1 PROVE T1 /\ T2 /\ \A p \in Handlers : T3(p)
  BY <1>a DEF TokensInv
<1>1. ASSUME imports = 1, retired \subseteq retired', NEW q \in Handlers, Stays(q)
      PROVE  T3(q)'
  BY <1>a, <1>1 DEF Stays, Arg
<1>2. ASSUME NEW p \in Handlers, Works(p)
      PROVE  T1' /\ T2' /\ \A q \in Handlers : T3(q)'
  <2>0. imports = 1 /\ T1 /\ T2 /\ T3(p) /\ \A q \in Handlers \ {p} : Stays(q)
    BY <1>2, <1>a, WorksMoves
  <2>1. retired \subseteq retired'
    BY <1>2, WorksWrites DEF DropUser, CreateUser, RotateToken, history
  <2>2. T3(p)'
    <3>1. pc'[p] # "token"
      BY <1>2, WorksFlow DEF AdminGoes, EnrolGoes, LoginGoes, Goes, AdminOps
    <3>2. ASSUME pc'[p] = "session", job'[p].op = "token" PROVE job'[p].fresh
      <4>1. job'[p] = job[p]
        BY <1>2, <3>2, WorksMoves
      <4>2. ASSUME pc[p] \in Counting PROVE FALSE
        BY <1>0, <3>2, <4>1, <4>2 DEF JobFits, AtAssert, Asserts
      <4>3. pc[p] = "token" /\ \E u \in Uids : tokens[u] = Arg(p)
        BY <1>2, <3>2, <4>2, WorksFlow
           DEF AdminGoes, EnrolGoes, LoginGoes, Goes, AdminOps, Counting
      <4>4. Arg(p) \notin retired
        BY <1>0, <2>0, <4>3 DEF DataOK
      <4> QED BY <2>0, <4>1, <4>3, <4>4
    <3> QED BY <3>1, <3>2
  <2>3. T1' /\ T2'
    <3>1. CASE UNCHANGED <<tokens, retired>>
      BY <2>0, <3>1
    <3>2. CASE DropUser(p)
      <4>1. Uid(p) \in Uids
        BY <1>0, <3>2 DEF DropUser, From, JobFits, AtAdmin
      <4>2. /\ tokens' = [tokens EXCEPT ![Uid(p)] = None]
            /\ retired' = retired \cup ({tokens[Uid(p)]} \ {None})
        BY <3>2 DEF DropUser
      <4>3. /\ tokens'[Uid(p)] = None
            /\ \A u \in Uids \ {Uid(p)} : tokens'[u] = tokens[u]
        BY <1>0, <4>1, <4>2 DEF DataOK
      <4> QED BY <2>0, <4>1, <4>2, <4>3
    <3>3. ASSUME GivesToken(p), Uid(p) \in Uids,
                 retired' \in {retired, retired \cup {tokens[Uid(p)]}},
                 tokens[Uid(p)] \in retired' \/ tokens[Uid(p)] = None
          PROVE  T1' /\ T2'
      <4> DEFINE t == NewToken
      <4>1. t \notin retired /\ \A u \in Uids : tokens[u] # t
        BY <3>3 DEF NewToken, GivesToken, Unseen
      <4>2. tokens' = [tokens EXCEPT ![Uid(p)] = t]
        BY <3>3 DEF GivesToken
      <4> HIDE DEF t
      <4> QED BY <1>0, <2>0, <3>3, <4>1, <4>2 DEF DataOK
    <3>4. CASE CreateUser(p)
      <4>1. Uid(p) \in Uids
        BY <1>0, <3>4 DEF CreateUser, From, JobFits, AtAdmin
      <4>2. users[Uid(p)] = None => tokens[Uid(p)] = None
        BY <4>1 DEF Typed, RowsHaveTokens
      <4> QED BY <3>1, <3>3, <3>4, <4>1, <4>2 DEF CreateUser, history
    <3>5. CASE RotateToken(p)
      <4>1. Uid(p) \in Uids
        BY <1>0, <3>5 DEF RotateToken, From, JobFits, AtAdmin
      <4> QED BY <3>1, <3>3, <3>5, <4>1 DEF RotateToken
    <3> QED BY <1>2, <3>1, <3>2, <3>4, <3>5, WorksWrites
  <2> QED BY <1>1, <2>0, <2>1, <2>2, <2>3
<1>3. ASSUME NEW p \in Handlers, NEW op \in AllOps, Begins(p, op)
      PROVE  T1' /\ T2' /\ \A q \in Handlers : T3(q)'
  <2>1. /\ imports = 1 /\ UNCHANGED <<tokens, retired>>
        /\ \A q \in Handlers \ {p} : Stays(q)
        /\ pc'[p] = (IF op \in AdminOps THEN "admin" ELSE op)
        /\ op = "token" => job'[p].fresh \/ job'[p].arg \in retired
    BY <1>3, BeginsMoves DEF tables, history
  <2>2. T3(p)'
    BY <2>1 DEF Arg, AllOps, AdminOps, EnrolOps, LoginOps
  <2> QED BY <1>1, <1>a, <2>1, <2>2
<1>4. CASE Restart
  <2>1. imports = 1 /\ UNCHANGED <<tokens, retired>>
    <3>1. imports \in Nat /\ imports # 0
      BY <1>0, BoundsAssumption DEF DataOK
    <3> QED BY <1>4, <3>1 DEF Restart, ImportDue, ImportUsers, tables
  <2> QED BY <1>4, <1>a, <2>1, RestartIdle
<1>5. CASE UNCHANGED <<tokens, retired, imports, pc, job, read>>
  BY <1>1, <1>5, <1>a DEF Stays
<1> QED BY <1>2, <1>3, <1>4, <1>5, NextCases, SignQuiet DEF vars, tables, history

-----------------------------------------------------------------------------
(* Challenges.                                                               *)

(* Where the ceremonies are written, and what counts as answered.            *)
LEMMA WorksCeremonies ==
  ASSUME NEW p \in Handlers, Works(p)
  PROVE  \/ UNCHANGED <<reg, logins, begun, answered>>
         \/ RegisterBegin(p) \/ LoginBegin(p) \/ FinishForgets(p) \/ LoginForgets(p)
         \/ ReplacePasskeys(p) \/ SetSession(p)
BY DEF Works, AdminStep, AdminCheck, DeleteLooksUp, DropUser, CreateUser,
   RotateLooksUp, RotateToken, RotateFails, RotateError, EnrolStep, RegisterRefused,
   FinishReads, FinishVerifies, CountsUser, RollsBack, LoginStep, LoginLooksUp,
   LoginVerifies, CountCompares, CountUpdates, CountFails, TokenLooksUp, StoreFails,
   memory, history

LEMMA ArgsAreNumbers ==
  ASSUME Typed, NEW p \in Handlers
  PROVE  /\ Enrols(p) => Arg(p) \in Nat /\ Uid(p) \in Uids /\ Busy(p, EnrolOps)
         /\ Logs(p) => Arg(p) \in Nat /\ Busy(p, LoginOps)
<1>1. JobFits(p) /\ begun \in Nat /\ Challenges \subseteq Nat
  BY DEF Typed, TypeOK, DataOK, Challenges
<1>2. Enrols(p) => Arg(p) \in Nat /\ Uid(p) \in Uids /\ Busy(p, EnrolOps)
  BY <1>1 DEF Enrols, JobFits, AtFinish, Reading, Busy, EnrolOps
<1>3. Logs(p) => pc[p] \in AtAssert \/ (pc[p] = "session" /\ job[p].op = "assert")
  BY DEF Logs, Spent, AtAssert, Counting
<1>4. pc[p] = "session" /\ job[p].op = "assert" => Asserts(p)
  BY <1>1 DEF JobFits
<1>5. Logs(p) => Asserts(p) /\ pc[p] # "idle"
  BY <1>1, <1>3, <1>4 DEF JobFits, AtAssert, Counting
<1>6. Logs(p) => Arg(p) \in Nat /\ Busy(p, LoginOps)
  BY <1>1, <1>5 DEF Asserts, Busy, LoginOps
<1> QED BY <1>2, <1>6

(* What a request that stays needs of the new ceremonies.                    *)
LEMMA PlacedStays ==
  ASSUME Typed, AllAlone, Placed, NEW p \in Handlers, NEW q \in Handlers, Stays(q),
         calm' = calm, begun' \in Nat, begun <= begun',
         Enrols(q) => /\ Arg(q) \notin logins'
                      /\ \A u \in Uids \ {Uid(q)} : reg'[u] # Arg(q),
         Logs(q) => \A u \in Uids : reg'[u] # Arg(q),
         Forgotten(q) \/ Spent(q) =>
            Arg(q) \notin logins' /\ \A u \in Uids : reg'[u] # Arg(q),
         "enrol" \in calm =>
            /\ pc[q] = "forget" => reg'[Uid(q)] = Arg(q)
            /\ Forgotten(q) => Arg(q) \notin answered',
         "login" \in calm =>
            /\ pc[q] \in {"verify", "spend"} => Arg(q) \in logins'
            /\ Spent(q) => Arg(q) \notin answered'
  PROVE  StillPlaced(q)' /\ Once(q)'
<1>1. StillPlaced(q) /\ begun \in Nat
  BY DEF Placed, Typed, TypeOK, DataOK
<1>2. Enrols(q) \/ Logs(q) => Arg(q) \in Nat
  BY ArgsAreNumbers
<1>3. Forgotten(q) => Enrols(q)
  BY DEF Forgotten, Enrols
<1>4. Spent(q) => Logs(q)
  BY DEF Logs
<1>5. /\ Enrols(q)' = Enrols(q) /\ Logs(q)' = Logs(q) /\ Forgotten(q)' = Forgotten(q)
      /\ Spent(q)' = Spent(q) /\ Arg(q)' = Arg(q) /\ Uid(q)' = Uid(q) /\ pc'[q] = pc[q]
  BY DEF Stays, Arg, Uid, Enrols, Logs, Forgotten, Spent
<1>6. (Enrols(q) \/ Logs(q)) => Arg(q) <= begun'
  BY <1>1, <1>2 DEF StillPlaced
<1>7. StillPlaced(q)'
  BY <1>3, <1>4, <1>5, <1>6 DEF StillPlaced, Gone
<1>8. Once(q)'
  BY <1>5 DEF Once
<1> QED BY <1>7, <1>8

(* The requests that stay are as far apart as they were.                     *)
LEMMA ApartStays ==
  ASSUME Placed, NEW p \in Handlers, \A q \in Handlers \ {p} : Stays(q),
         \A q \in Handlers \ {p} : Apart(p, q)' /\ Apart(q, p)'
  PROVE  \A q, r \in Handlers : Apart(q, r)'
<1> SUFFICES ASSUME NEW q \in Handlers, NEW r \in Handlers PROVE Apart(q, r)'
  OBVIOUS
<1>1. CASE q # p /\ r # p
  BY <1>1 DEF Placed, Apart, Stays, Arg, Enrols, Logs, Spent
<1>2. CASE q = p /\ r = p
  BY <1>2 DEF Apart, Enrols, Logs, Spent
<1> QED BY <1>1, <1>2

(* Two requests of one kind overlap.                                         *)
LEMMA NoTwo ==
  ASSUME Typed, AllAlone, NEW p \in Handlers, NEW q \in Handlers, p # q
  PROVE  /\ Busy(p, EnrolOps) /\ Busy(q, EnrolOps) => "enrol" \notin calm
         /\ Busy(p, LoginOps) /\ Busy(q, LoginOps) => "login" \notin calm
BY DEF AllAlone, Alone

LEMMA PlacedWrites ==
  ASSUME Typed, AllAlone, Placed, NEW p \in Handlers, Works(p),
         \/ RegisterBegin(p) \/ LoginBegin(p) \/ FinishForgets(p) \/ LoginForgets(p)
         \/ ReplacePasskeys(p) \/ SetSession(p)
  PROVE  Placed'
<1> USE DEF From
<1>0. /\ DataOK /\ ControlOK /\ JobFits(p) /\ begun \in Nat
      /\ \A q \in Handlers \ {p} : Stays(q)
      /\ calm' = calm /\ None \notin Nat
  BY WorksMoves, NoneAssumption DEF Typed, TypeOK, DataOK
<1>a. Open /\ StillPlaced(p) /\ Once(p)
  BY DEF Placed
<1>b. \A q \in Handlers :
        /\ StillPlaced(q) /\ Once(q) /\ Apart(p, q) /\ Apart(q, p)
        /\ Enrols(q) => Arg(q) \in Nat /\ Busy(q, EnrolOps)
        /\ Logs(q) => Arg(q) \in Nat /\ Busy(q, LoginOps)
        /\ (Forgotten(q) \/ pc[q] = "forget" => Enrols(q))
        /\ (Spent(q) \/ pc[q] \in {"verify", "spend"} => Logs(q))
  BY ArgsAreNumbers DEF Placed, Forgotten, Enrols, Logs
<1>c. pc'[p] = "idle" =>
        /\ StillPlaced(p)' /\ Once(p)'
        /\ \A q \in Handlers \ {p} : Apart(p, q)' /\ Apart(q, p)'
  BY DEF StillPlaced, Once, Apart, Enrols, Logs, Forgotten, Spent
<1>d. ASSUME Done(p) PROVE pc'[p] = "idle"
  BY <1>0, <1>d, WorkMoves DEF Done
<1>e. ASSUME NEW l, l # "idle", Goto(p, l)
      PROVE  pc'[p] = l /\ job'[p] = job[p] /\ Arg(p)' = Arg(p) /\ Uid(p)' = Uid(p)
  BY <1>0, <1>e, GotoMoves DEF Arg, Uid
<1>1. CASE RegisterBegin(p)
  <2>1. /\ begun' = begun + 1 /\ logins' = logins /\ answered' = answered
        /\ reg' = [reg EXCEPT ![Uid(p)] = begun + 1] /\ pc'[p] = "idle"
        /\ Busy(p, EnrolOps) /\ Uid(p) \in Uids
    BY <1>0, <1>1, <1>d
       DEF RegisterBegin, NewChallenge, history, Busy, EnrolOps, JobFits
  <2>2. \A u \in Uids : reg'[u] = reg[u] \/ (u = Uid(p) /\ reg'[u] = begun + 1)
    BY <1>0, <2>1 DEF DataOK
  <2>3. Open'
    <3>1. logins \subseteq Nat /\ answered \subseteq Nat
      BY <1>0 DEF DataOK, Challenges
    <3>2. \A u \in Uids : reg[u] = None \/ reg[u] \in Nat
      BY <1>0 DEF DataOK, Challenges
    <3> QED BY <1>0, <1>a, <2>1, <2>2, <3>1, <3>2 DEF Open, Gone
  <2>4. ASSUME NEW q \in Handlers \ {p} PROVE StillPlaced(q)' /\ Once(q)'
    <3>1. Enrols(q) \/ Logs(q) => Arg(q) # begun + 1
      BY <1>0, <1>b DEF StillPlaced
    <3>2. "enrol" \in calm => ~Enrols(q)
      BY <1>b, <2>1, NoTwo
    <3> QED BY <1>0, <1>b, <2>1, <2>2, <3>1, <3>2, PlacedStays
         DEF StillPlaced, Once, Gone
  <2> QED BY <1>0, <1>c, <2>1, <2>3, <2>4, ApartStays DEF Placed
<1>2. CASE LoginBegin(p)
  <2>1. /\ begun' = begun + 1 /\ logins' = logins \cup {begun + 1} /\ reg' = reg
        /\ answered' = answered /\ pc'[p] = "idle"
    BY <1>2, <1>d DEF LoginBegin, NewChallenge, history
  <2>2. Open'
    <3>1. logins \subseteq Nat /\ answered \subseteq Nat
      BY <1>0 DEF DataOK, Challenges
    <3>2. \A u \in Uids : reg[u] = None \/ reg[u] \in Nat
      BY <1>0 DEF DataOK, Challenges
    <3> QED BY <1>0, <1>a, <2>1, <3>1, <3>2 DEF Open, Gone
  <2>3. ASSUME NEW q \in Handlers \ {p} PROVE StillPlaced(q)' /\ Once(q)'
    <3>1. Enrols(q) \/ Logs(q) => Arg(q) # begun + 1
      BY <1>0, <1>b DEF StillPlaced
    <3> QED BY <1>0, <1>b, <2>1, <3>1, PlacedStays DEF StillPlaced, Once, Gone
  <2> QED BY <1>0, <1>c, <2>1, <2>2, <2>3, ApartStays DEF Placed
<1>3. CASE FinishForgets(p)
  <2>1. /\ pc[p] = "forget" /\ begun' = begun /\ logins' = logins
        /\ answered' = answered /\ reg' = [reg EXCEPT ![Uid(p)] = None]
        /\ pc'[p] = "count" /\ Arg(p)' = Arg(p) /\ Uid(p)' = Uid(p)
    BY <1>3, <1>e DEF FinishForgets, history
  <2>2. Enrols(p) /\ Busy(p, EnrolOps) /\ Uid(p) \in Uids /\ Arg(p) \in Nat
    BY <2>1, ArgsAreNumbers DEF Enrols
  <2>3. /\ \A u \in Uids : reg'[u] = reg[u] \/ reg'[u] = None
        /\ reg'[Uid(p)] = None /\ \A u \in Uids \ {Uid(p)} : reg'[u] = reg[u]
    BY <1>0, <2>1, <2>2 DEF DataOK
  <2>4. Open'
    <3>1. logins \subseteq Nat /\ answered \subseteq Nat
      BY <1>0 DEF DataOK, Challenges
    <3> QED BY <1>0, <1>a, <2>1, <2>3, <3>1 DEF Open, Gone
  <2>5. StillPlaced(p)'
    BY <1>0, <1>a, <2>1, <2>2, <2>3
       DEF StillPlaced, Enrols, Logs, Forgotten, Spent, Gone
  <2>6. Once(p)'
    BY <1>0, <1>a, <2>1, <2>2
       DEF Once, Open, Gone, Forgotten, Spent
  <2>7. ASSUME NEW q \in Handlers \ {p} PROVE StillPlaced(q)' /\ Once(q)'
    <3>1. "enrol" \in calm => ~Enrols(q)
      BY <1>b, <2>2, NoTwo
    <3> QED BY <1>0, <1>b, <2>1, <2>3, <3>1, PlacedStays DEF StillPlaced, Once, Gone
  <2>8. \A q \in Handlers \ {p} : Apart(p, q)' /\ Apart(q, p)'
    BY <1>0, <1>b, <2>1, <2>2 DEF Apart, Stays, Enrols, Logs, Spent, Arg
  <2> QED BY <1>0, <2>4, <2>5, <2>6, <2>7, <2>8, ApartStays DEF Placed
<1>4. CASE LoginForgets(p)
  <2>1. /\ pc[p] = "spend" /\ begun' = begun /\ reg' = reg /\ answered' = answered
        /\ logins' = logins \ {Arg(p)}
        /\ pc'[p] = "compare" /\ Arg(p)' = Arg(p) /\ Uid(p)' = Uid(p)
    BY <1>4, <1>e DEF LoginForgets, EndCeremony, history
  <2>2. Logs(p) /\ Busy(p, LoginOps) /\ Arg(p) \in Nat
    BY <2>1, ArgsAreNumbers DEF Logs
  <2>3. Open'
    BY <1>a, <2>1 DEF Open, Gone
  <2>4. StillPlaced(p)'
    BY <1>a, <2>1, <2>2 DEF StillPlaced, Enrols, Logs, Forgotten, Spent, Gone
  <2>5. Once(p)'
    BY <1>0, <1>a, <2>1, <2>2 DEF Once, Open, Gone, Forgotten, Spent
  <2>6. ASSUME NEW q \in Handlers \ {p} PROVE StillPlaced(q)' /\ Once(q)'
    <3>1. "login" \in calm => ~Logs(q)
      BY <1>b, <2>2, NoTwo
    <3> QED BY <1>0, <1>b, <2>1, <3>1, PlacedStays DEF StillPlaced, Once, Gone
  <2>7. \A q \in Handlers \ {p} : Apart(p, q)' /\ Apart(q, p)'
    BY <1>0, <1>b, <2>1, <2>2 DEF Apart, Stays, Enrols, Logs, Spent, Arg
  <2> QED BY <1>0, <2>3, <2>4, <2>5, <2>6, <2>7, ApartStays DEF Placed
<1>5. CASE ReplacePasskeys(p)
  <2>1. /\ pc[p] = "replace" /\ UNCHANGED <<reg, logins, begun>> /\ pc'[p] = "idle"
        /\ answered' = answered \cup {Arg(p)}
    BY <1>5, <1>d DEF ReplacePasskeys, memory
  <2>2. Enrols(p) /\ Forgotten(p) /\ Gone(Arg(p))
    BY <1>a, <2>1 DEF Enrols, Forgotten, StillPlaced
  <2>3. Open'
    BY <1>a, <2>1, <2>2 DEF Open, Gone
  <2>4. ASSUME NEW q \in Handlers \ {p} PROVE StillPlaced(q)' /\ Once(q)'
    <3>1. ("enrol" \in calm => ~Enrols(q)) /\ (Logs(q) => Arg(q) # Arg(p))
      BY <1>b, <2>2, NoTwo DEF Apart
    <3> QED BY <1>0, <1>b, <2>1, <3>1, PlacedStays DEF StillPlaced, Once, Gone
  <2> QED BY <1>0, <1>c, <2>1, <2>3, <2>4, ApartStays DEF Placed
<1>6. CASE SetSession(p)
  <2>1. /\ pc[p] = "session" /\ UNCHANGED <<reg, logins, begun>> /\ pc'[p] = "idle"
        /\ answered' = answered \cup (IF job[p].op = "assert" THEN {Arg(p)} ELSE {})
    BY <1>6, <1>d DEF SetSession, memory
  <2>2. job[p].op = "assert" => Logs(p) /\ Spent(p) /\ Gone(Arg(p))
    BY <1>a, <2>1 DEF Logs, Spent, StillPlaced
  <2>3. Open'
    BY <1>a, <2>1, <2>2 DEF Open, Gone
  <2>4. ASSUME NEW q \in Handlers \ {p} PROVE StillPlaced(q)' /\ Once(q)'
    <3>1. job[p].op = "assert" =>
            ("login" \in calm => ~Logs(q)) /\ (Enrols(q) => Arg(q) # Arg(p))
      BY <1>b, <2>2, NoTwo DEF Apart
    <3> QED BY <1>0, <1>b, <2>1, <3>1, PlacedStays DEF StillPlaced, Once, Gone
  <2> QED BY <1>0, <1>c, <2>1, <2>3, <2>4, ApartStays DEF Placed
<1> QED BY <1>1, <1>2, <1>3, <1>4, <1>5, <1>6

(* A request goes on, and no ceremony is touched.                            *)
LEMMA PlacedMoves ==
  ASSUME Typed, AllAlone, Placed, NEW p \in Handlers, Works(p),
         UNCHANGED <<reg, logins, begun, answered>>,
         ~FinishForgets(p), ~LoginForgets(p)
  PROVE  Placed'
<1>0. /\ DataOK /\ ControlOK /\ JobFits(p) /\ begun \in Nat
      /\ \A q \in Handlers \ {p} : Stays(q)
      /\ calm' = calm /\ None \notin Nat
  BY WorksMoves, NoneAssumption DEF Typed, TypeOK, DataOK
<1>a. Open /\ StillPlaced(p) /\ Once(p)
  BY DEF Placed
<1>b. \A q \in Handlers :
        /\ StillPlaced(q) /\ Once(q) /\ Apart(p, q) /\ Apart(q, p)
        /\ Enrols(q) => Arg(q) \in Nat
        /\ Logs(q) => Arg(q) \in Nat
        /\ (Forgotten(q) \/ pc[q] = "forget" => Enrols(q))
        /\ (Spent(q) \/ pc[q] \in {"verify", "spend"} => Logs(q))
  BY ArgsAreNumbers DEF Placed, Forgotten, Enrols, Logs
<1>1. Open'
  BY <1>a DEF Open, Gone
<1>2. ASSUME NEW q \in Handlers \ {p} PROVE StillPlaced(q)' /\ Once(q)'
  BY <1>0, <1>b, PlacedStays DEF StillPlaced, Once, Gone
<1>3. ASSUME /\ StillPlaced(p)' /\ Once(p)'
             /\ \A q \in Handlers \ {p} : Apart(p, q)' /\ Apart(q, p)'
      PROVE  Placed'
  BY <1>0, <1>1, <1>2, <1>3, ApartStays DEF Placed
<1>4. ASSUME ~Enrols(p)', ~Logs(p)' PROVE Placed'
  BY <1>3, <1>4
     DEF StillPlaced, Once, Apart, Enrols, Logs, Forgotten, Spent
<1>5. CASE pc'[p] = "idle"
  BY <1>4, <1>5 DEF Enrols, Logs, Spent
<1>6. ASSUME pc'[p] # "idle" PROVE Placed'
  <2>1. job'[p] = job[p] /\ Arg(p)' = Arg(p) /\ Uid(p)' = Uid(p)
    BY <1>6, WorksMoves DEF Arg, Uid
  <2>2. CASE Goes(p, "finish", "ceremony")
    BY <1>4, <2>2 DEF Goes, Enrols, Logs, Spent
  <2>3. CASE AdminGoes(p)
    BY <1>4, <2>3 DEF AdminGoes, Goes, AdminOps, Enrols, Logs, Spent
  <2>4. CASE Goes(p, "token", "session")
    BY <1>0, <1>4, <2>1, <2>4 DEF Goes, JobFits, Enrols, Logs, Spent
  <2>5. CASE /\ Logs(p) /\ Logs(p)' /\ (Spent(p)' => Spent(p)) /\ ~Enrols(p)'
             /\ pc'[p] \in {"verify", "spend"} => pc[p] \in {"verify", "spend"}
    <3>0. ~Forgotten(p)' /\ pc'[p] # "forget"
      BY <2>5 DEF Enrols, Forgotten
    <3>a. StillPlaced(p)'
      BY <1>a, <2>1, <2>5, <3>0 DEF StillPlaced, Gone
    <3>b. Once(p)'
      BY <1>0, <1>a, <2>1, <2>5, <3>0 DEF Once
    <3>1. StillPlaced(p)' /\ Once(p)'
      BY <3>a, <3>b
    <3>2. \A q \in Handlers \ {p} : Apart(p, q)' /\ Apart(q, p)'
      BY <1>0, <1>b, <2>1, <2>5 DEF Apart, Stays, Enrols, Logs, Spent, Arg
    <3> QED BY <1>3, <3>1, <3>2
  <2>6. CASE Goes(p, "verify", "spend")
    BY <2>5, <2>6 DEF Goes, Enrols, Logs, Spent
  <2>7. CASE /\ pc[p] \in {"compare", "store"} /\ pc'[p] \in {"store", "session"}
    <3>1. job[p].op = "assert"
      BY <1>0, <2>7 DEF JobFits, AtAssert, Counting, Asserts
    <3> QED BY <2>1, <2>5, <2>7, <3>1 DEF Logs, Spent, Enrols
  <2>8. CASE Goes(p, "count", "replace")
    <3>1. StillPlaced(p)' /\ Once(p)'
      BY <1>0, <1>a, <2>1, <2>8
         DEF Goes, StillPlaced, Once, Gone, Logs, Spent, Enrols, Forgotten
    <3>2. \A q \in Handlers \ {p} : Apart(p, q)' /\ Apart(q, p)'
      BY <1>0, <1>b, <2>1, <2>8 DEF Goes, Apart, Stays, Enrols, Logs, Spent, Arg
    <3> QED BY <1>3, <3>1, <3>2
  <2>9. CASE Goes(p, "ceremony", "forget") /\ reg[Uid(p)] = Arg(p)
    <3>1. Uid(p) \in Uids /\ Arg(p) \in Nat
      BY <1>0, <2>9 DEF Goes, JobFits, AtFinish, Reading
    <3>2. StillPlaced(p)' /\ Once(p)'
      BY <1>0, <1>a, <2>1, <2>9, <3>1
         DEF Goes, StillPlaced, Once, Open, Gone, Logs, Spent, Enrols, Forgotten
    <3>3. \A q \in Handlers \ {p} : Apart(p, q)' /\ Apart(q, p)'
      BY <1>0, <1>b, <2>1, <2>9, <3>1
         DEF Goes, Apart, Stays, StillPlaced, Enrols, Logs, Spent, Arg
    <3> QED BY <1>3, <3>2, <3>3
  <2>10. CASE Goes(p, "assert", "verify") /\ Arg(p) \in logins
    <3>1. StillPlaced(p)' /\ Once(p)'
      BY <1>0, <1>a, <2>1, <2>10
         DEF Goes, StillPlaced, Once, Open, Gone, Logs, Spent, Enrols, Forgotten
    <3>2. \A q \in Handlers \ {p} : Apart(p, q)' /\ Apart(q, p)'
      BY <1>0, <1>b, <2>1, <2>10
         DEF Goes, Apart, Stays, StillPlaced, Enrols, Logs, Spent, Arg
    <3> QED BY <1>3, <3>1, <3>2
  <2> QED BY <1>6, <2>2, <2>3, <2>4, <2>6, <2>7, <2>8, <2>9, <2>10, WorksFlow
          DEF EnrolGoes, LoginGoes, Goes
<1> QED BY <1>5, <1>6

LEMMA PlacedStep == Typed /\ AllAlone /\ Placed /\ [Next]_vars => Placed'
<1> SUFFICES ASSUME Typed, AllAlone, Placed, [Next]_vars PROVE Placed'
  OBVIOUS
<1>1. ASSUME NEW p \in Handlers, Works(p) PROVE Placed'
  BY <1>1, PlacedMoves, PlacedWrites, WorksCeremonies
<1>2. ASSUME UNCHANGED <<reg, logins, begun, answered>>, calm' \subseteq calm,
             \A q \in Handlers : Stays(q) \/ (~Enrols(q)' /\ ~Logs(q)')
      PROVE  Placed'
  <2>1. Open'
    BY <1>2 DEF Placed, Open, Gone
  <2>2. ASSUME NEW q \in Handlers PROVE StillPlaced(q)' /\ Once(q)'
    <3>1. CASE Stays(q)
      BY <1>2, <3>1 DEF Placed, StillPlaced, Once, Gone, Stays, Arg, Uid, Enrols, Logs,
           Forgotten, Spent
    <3>2. CASE ~Enrols(q)' /\ ~Logs(q)'
      BY <3>2 DEF StillPlaced, Once, Enrols, Logs, Forgotten, Spent
    <3> QED BY <1>2, <3>1, <3>2
  <2>3. ASSUME NEW q \in Handlers, NEW r \in Handlers PROVE Apart(q, r)'
    <3>1. CASE Stays(q) /\ Stays(r)
      BY <3>1 DEF Placed, Apart, Stays, Arg, Enrols, Logs, Spent
    <3> QED BY <1>2, <3>1 DEF Apart
  <2> QED BY <2>1, <2>2, <2>3 DEF Placed
<1>3. ASSUME NEW p \in Handlers, NEW op \in AllOps, Begins(p, op) PROVE Placed'
  <2>1. /\ UNCHANGED <<reg, logins, begun, answered>> /\ calm' \subseteq calm
        /\ \A q \in Handlers \ {p} : Stays(q)
        /\ pc'[p] = (IF op \in AdminOps THEN "admin" ELSE op)
    BY <1>3, BeginsMoves DEF memory, history
  <2>2. ~Enrols(p)' /\ ~Logs(p)'
    BY <2>1 DEF Enrols, Logs, Spent, AllOps, AdminOps, EnrolOps, LoginOps
  <2> QED BY <1>2, <2>1, <2>2
<1>4. CASE Restart
  <2>1. \A q \in Handlers : ~Enrols(q)' /\ ~Logs(q)' /\ ~Forgotten(q)' /\ ~Spent(q)'
                            /\ pc'[q] = "idle"
    BY <1>4, RestartIdle DEF Enrols, Logs, Spent, Forgotten
  <2>2. Open'
    <3>1. answered \subseteq Nat /\ None \notin Nat
      BY NoneAssumption DEF Typed, TypeOK, DataOK, Challenges
    <3> QED BY <1>4, <3>1, RestartIdle DEF Placed, Open, Gone
  <2> QED BY <2>1, <2>2 DEF Placed, StillPlaced, Once, Apart
<1>5. CASE UNCHANGED <<reg, logins, begun, answered, pc, job, read, calm>>
  BY <1>2, <1>5 DEF Stays
<1> QED BY <1>1, <1>3, <1>4, <1>5, NextCases, SignQuiet DEF vars, memory, history

-----------------------------------------------------------------------------
(* The theorems.                                                             *)

IInv == /\ Typed /\ PasskeysHaveUser /\ AllAlone /\ OthersGo /\ AdminInv
        /\ EnrolInv /\ TokensInv /\ Placed

LEMMA Inductive == Spec => []IInv
<1>1. Init => IInv
  <2> SUFFICES ASSUME Init PROVE IInv
    OBVIOUS
  <2>1. (\A p \in Handlers : pc[p] = "idle") /\ Typed
    BY TypedInit DEF Init
  <2>2. PasskeysHaveUser
    BY UsersAssumption, NoneAssumption
       DEF Init, PasskeysHaveUser, Imported, ImportedKeys, Nothing
  <2>3. AllAlone /\ OthersGo
    BY <2>1 DEF AllAlone, Alone, Busy, OthersGo
  <2>4. AdminInv
    BY <2>1, UsersAssumption DEF Init, AdminInv, Imported, Checked
  <2>5. EnrolInv
    BY <2>1 DEF Init, EnrolInv, Reading
  <2>6. TokensInv
    BY <2>1 DEF Init, TokensInv, ImportedTokens
  <2>7. Placed
    BY <2>1 DEF Init, Placed, Open, StillPlaced, Once, Apart, Enrols, Logs, Spent,
         Forgotten, Nobody
  <2> QED BY <2>1, <2>2, <2>3, <2>4, <2>5, <2>6, <2>7 DEF IInv
<1>2. IInv /\ [Next]_vars => IInv'
  BY TypedStep, KeysStep, AllAloneStep, OthersStep, AdminInvStep, EnrolInvStep,
     TokensInvStep, PlacedStep DEF IInv
<1> QED BY <1>1, <1>2, PTL DEF Spec

(* Every variable of the user store has its type.                            *)
THEOREM StoreTypeCorrect == Spec => []TypeOK
<1>1. IInv => TypeOK
  BY DEF IInv, Typed
<1> QED BY <1>1, Inductive, PTL

(* No passkey outlives its user, for any requests at once.                   *)
THEOREM PasskeysBelong == Spec => []PasskeysHaveUser
<1>1. IInv => PasskeysHaveUser
  BY DEF IInv
<1> QED BY <1>1, Inductive, PTL

(* A passkey reported as enrolled stays with its user, if enrolments do not  *)
(* overlap.                                                                  *)
THEOREM EnrolmentsLast == Spec => []EnrolledKept
<1>1. IInv => EnrolledKept
  BY DEF IInv, EnrolInv, EnrolledKept
<1> QED BY <1>1, Inductive, PTL

(* An admin remains, if admin requests come one at a time.                   *)
THEOREM SomebodyAdministers == Spec => []AdminRemains
<1>1. IInv => AdminRemains
  BY DEF IInv, AdminInv, AdminRemains
<1> QED BY <1>1, Inductive, PTL

(* A challenge is answered at most once, if requests of its kind do not      *)
(* overlap.                                                                  *)
THEOREM ChallengesAreSpent == Spec => []AnsweredOnce
<1>1. ASSUME IInv PROVE AnsweredOnce
  BY <1>1 DEF IInv, Placed, Once, Forgotten, Spent, AnsweredOnce
<1> QED BY <1>1, Inductive, PTL

(* A token that was retired opens no session for a later request, unless     *)
(* users.yml was imported again.                                             *)
THEOREM RetiredTokensAreDead == Spec => []RetiredTokensStayDead
<1>1. IInv => RetiredTokensStayDead
  BY DEF IInv, TokensInv, RetiredTokensStayDead
<1> QED BY <1>1, Inductive, PTL

-----------------------------------------------------------------------------
(* The sign counts.                                                          *)

(* Enrolments and logins that have not overlapped are not in flight          *)
(* together.                                                                 *)
Unmixed ==
  "mixed" \in calm => \A p, q \in Handlers : ~(Busy(p, EnrolOps) /\ Busy(q, LoginOps))

(* The challenge of an enrolled passkey is out of the store for good.        *)
Unasked(c) == c <= begun /\ \A v \in Uids : reg[v] # c
Known ==
  /\ \A u \in Uids : \A c \in Held(passkeys[u]) : Unasked(c)
  /\ \A p \in Handlers : pc[p] \in Reading => \A c \in Held(read[p]) : Unasked(c)

(* While no login runs, the enrolments of a user know the same counts as the *)
(* table, and nobody has used the passkeys they add.                         *)
Agree(k, l) == \A c \in Credentials : k[c] = None \/ l[c] = None \/ k[c] = l[c]
Unused(k, c) == k[c] \in {None, 0}
Adds(p, k) == Agree(read[p], k) /\ (Enrols(p) => Unused(k, Arg(p)))
EnrolsAgree ==
  "mixed" \in calm =>
    \A p \in Handlers : pc[p] \in Reading =>
      /\ Adds(p, passkeys[Uid(p)])
      /\ \A q \in Handlers : pc[q] \in Reading /\ Uid(q) = Uid(p) => Adds(p, read[q])

(* A single login knows the count of the table.                              *)
LoginsAgree ==
  {"login", "mixed"} \subseteq calm =>
    \A p \in Handlers : pc[p] \in Counting =>
      passkeys[Uid(p)][signed[Arg(p)].cred] \in {None, KnownCount(p)}

(* What becomes of the passkeys of one user.                                 *)
Writes(p, u) == ReplacePasskeys(p) /\ Uid(p) = u /\ passkeys'[u] = Collected(p)
Counts(p, u) ==
  LET c == signed[Arg(p)].cred
  IN  /\ CountUpdates(p) /\ Uid(p) = u /\ c \in Credentials
      /\ passkeys'[u] = [passkeys[u] EXCEPT ![c] = IF @ = None THEN None ELSE NewCount(p)]
Imports(u) == Restart /\ passkeys[u] = Nothing /\ passkeys'[u] = ImportedKeys[u]

LEMMA KeysChange ==
  ASSUME Typed, PasskeysHaveUser, [Next]_vars, NEW u \in Uids
  PROVE  \/ passkeys'[u] \in {passkeys[u], Nothing}
         \/ \E p \in Handlers : Writes(p, u) \/ Counts(p, u)
         \/ Imports(u)
<1>0. DataOK /\ \A p \in Handlers : JobFits(p)
  BY DEF Typed, TypeOK
<1>1. ASSUME NEW p \in Handlers, Works(p)
      PROVE  passkeys'[u] \in {passkeys[u], Nothing} \/ Writes(p, u) \/ Counts(p, u)
  <2>1. CASE UNCHANGED passkeys \/ CreateUser(p)
    BY <2>1 DEF CreateUser
  <2>2. CASE DropUser(p)
    BY <1>0, <2>2 DEF DropUser, DataOK
  <2>3. CASE ReplacePasskeys(p)
    BY <1>0, <2>3 DEF ReplacePasskeys, Writes, DataOK
  <2>4. CASE CountUpdates(p)
    <3>1. Asserts(p)
      BY <1>0, <2>4 DEF CountUpdates, From, JobFits, AtAssert, Counting
    <3>2. signed[Arg(p)].cred \in Credentials
      BY <1>0, <3>1 DEF Asserts, DataOK, Assertions
    <3> QED BY <1>0, <2>4, <3>2 DEF CountUpdates, Counts, DataOK
  <2> QED BY <1>1, <2>1, <2>2, <2>3, <2>4, WorksWrites
<1>2. ASSUME NEW p \in Handlers, NEW op \in AllOps, Begins(p, op) PROVE UNCHANGED passkeys
  BY <1>2, BeginsMoves DEF tables
<1>3. ASSUME Restart PROVE UNCHANGED passkeys \/ Imports(u)
  <2>1. users = Nobody => passkeys[u] = Nothing
    BY DEF PasskeysHaveUser, Nobody
  <2> QED BY <1>3, <2>1 DEF Restart, ImportDue, ImportUsers, Imports, tables
<1>4. ASSUME NEW n, NEW v, NEW c, Sign(n, v, c) PROVE UNCHANGED passkeys
  BY <1>4, SignQuiet DEF tables
<1>5. CASE UNCHANGED vars
  BY <1>5 DEF vars, tables
<1> QED BY <1>1, <1>2, <1>3, <1>4, <1>5, NextCases

(* Where a request at work comes from.                                       *)
ReadsNow(q) == read'[q] = passkeys[Uid(q)] /\ UNCHANGED passkeys
LEMMA ReadingComes ==
  ASSUME Typed, [Next]_vars, NEW q \in Handlers, pc'[q] \in Reading
  PROVE  /\ job'[q] = job[q] /\ Uid(q) \in Uids /\ Busy(q, EnrolOps) /\ Arg(q) \in Credentials
         /\ \/ /\ pc[q] \in Reading /\ read'[q] = read[q]
               /\ Enrols(q)' => Enrols(q) \/ reg[Uid(q)] = Arg(q)
            \/ ReadsNow(q) /\ ~Enrols(q)'
<1>0. JobFits(q) /\ begun \in Nat /\ begun <= MaxChallenges /\ MaxChallenges \in Nat
  BY BoundsAssumption DEF Typed, TypeOK, DataOK
<1>1. ASSUME pc[q] \in AtFinish
      PROVE  Uid(q) \in Uids /\ Busy(q, EnrolOps) /\ Arg(q) \in Credentials
  <2>1. Uid(q) \in Uids /\ Arg(q) \in 1..begun /\ job[q].op = "finish"
    BY <1>0, <1>1 DEF JobFits
  <2> QED BY <1>0, <1>1, <2>1 DEF Busy, EnrolOps, AtFinish, Reading, Credentials
<1>2. CASE Stays(q)
  BY <1>1, <1>2 DEF Stays, AtFinish, Enrols
<1>3. CASE Works(q)
  <2>1. pc'[q] # "idle"
    BY DEF Reading
  <2>2. CASE FinishReads(q) /\ Goes(q, "finish", "ceremony") /\ read'[q] = passkeys[Uid(q)]
    BY <1>1, <1>3, <2>1, <2>2, WorksMoves
       DEF FinishReads, Goes, AtFinish, ReadsNow, Enrols, tables
  <2>3. CASE Same(q) /\ EnrolGoes(q)
    BY <1>1, <2>3 DEF Same, EnrolGoes, Goes, Reading, AtFinish, Enrols
  <2>4. CASE Same(q) /\ (AdminGoes(q) \/ LoginGoes(q))
    BY <2>4 DEF AdminGoes, LoginGoes, Goes, Reading, AdminOps
  <2>5. CASE Goes(q, "verify", "spend")
    BY <2>5 DEF Goes, Reading
  <2> QED BY <1>3, <2>1, <2>2, <2>3, <2>4, <2>5, WorksFlow
<1>4. ASSUME NEW op \in AllOps, Begins(q, op) PROVE FALSE
  <2>1. pc'[q] = (IF op \in AdminOps THEN "admin" ELSE op)
    BY <1>4, BeginsMoves
  <2> QED BY <2>1 DEF AllOps, AdminOps, EnrolOps, LoginOps, Reading
<1>5. ~Restart
  BY RestartIdle DEF Reading
<1>6. CASE UNCHANGED <<pc, job, read>>
  BY <1>2, <1>6 DEF Stays
<1> QED BY <1>2, <1>3, <1>4, <1>5, <1>6, NextCases, WorksMoves, BeginsMoves, SignQuiet
     DEF vars

LEMMA CountingComes ==
  ASSUME Typed, [Next]_vars, NEW q \in Handlers, pc'[q] \in Counting
  PROVE  /\ job'[q] = job[q] /\ Asserts(q) /\ signed'[Arg(q)] = signed[Arg(q)]
         /\ Uid(q) \in Uids /\ signed[Arg(q)].cred \in Credentials
         /\ Busy(q, LoginOps)
         /\ \/ pc[q] \in Counting /\ read'[q] = read[q]
            \/ ReadsNow(q)
<1>0. JobFits(q) /\ DataOK
  BY DEF Typed, TypeOK
<1>1. ASSUME pc[q] \in AtAssert
      PROVE  /\ Asserts(q) /\ Uid(q) \in Uids /\ signed[Arg(q)].cred \in Credentials
             /\ Busy(q, LoginOps) /\ signed'[Arg(q)] = signed[Arg(q)]
  <2>1. Asserts(q)
    BY <1>0, <1>1 DEF JobFits
  <2>2. signed[Arg(q)] \in Assertions
    BY <1>0, <2>1 DEF Asserts, DataOK
  <2>3. Busy(q, LoginOps)
    BY <1>1, <2>1 DEF Busy, LoginOps, Asserts, AtAssert, Counting
  <2>4. \A n \in Challenges : signed[n] # None => signed'[n] = signed[n]
    <3>1. UNCHANGED signed \/ \E n \in Challenges, u \in Uids, c \in Credentials : Sign(n, u, c)
      BY DEF Next, Step, Restart, BeginAdmin, BeginEnrol, BeginLogin, BeginToken, Starts,
         AdminStep, AdminCheck, DeleteLooksUp, DropUser, CreateUser, RotateLooksUp,
         RotateToken, RotateFails, EnrolStep, RegisterBegin, RegisterRefused, FinishReads,
         FinishVerifies, FinishForgets, CountsUser, ReplacePasskeys, RollsBack, LoginStep,
         LoginBegin, LoginLooksUp, LoginVerifies, LoginForgets, CountCompares,
         CountUpdates, CountFails, TokenLooksUp, SetSession, StoreFails, From, vars
    <3> QED BY <1>0, <3>1 DEF Sign, DataOK
  <2> QED BY <2>1, <2>2, <2>3, <2>4 DEF Asserts, Assertions
<1>2. CASE Stays(q)
  BY <1>1, <1>2 DEF Stays, AtAssert
<1>3. CASE Works(q)
  <2>1. pc'[q] # "idle"
    BY DEF Counting
  <2>2. CASE LoginVerifies(q) /\ Goes(q, "verify", "spend")
    <3>1. ~Done(q)
      BY <2>2, WorkMoves DEF Done, Goes, Typed, TypeOK
    <3>2. Reads(q, "spend", passkeys[Uid(q)])
      BY <2>2, <3>1 DEF LoginVerifies
    <3>3. read'[q] = passkeys[Uid(q)]
      BY <3>2, WorkMoves DEF Reads, Typed, TypeOK
    <3> QED BY <1>1, <1>3, <2>1, <2>2, <3>3, WorksMoves
            DEF LoginVerifies, Goes, AtAssert, ReadsNow, tables
  <2>3. CASE Same(q) /\ LoginGoes(q)
    BY <1>1, <2>3 DEF Same, LoginGoes, Goes, Counting, AtAssert
  <2>4. CASE Same(q) /\ (AdminGoes(q) \/ EnrolGoes(q))
    BY <2>4 DEF AdminGoes, EnrolGoes, Goes, Counting, AdminOps
  <2>5. CASE Goes(q, "finish", "ceremony")
    BY <2>5 DEF Goes, Counting
  <2> QED BY <1>3, <2>1, <2>2, <2>3, <2>4, <2>5, WorksFlow
<1>4. ASSUME NEW op \in AllOps, Begins(q, op) PROVE FALSE
  <2>1. pc'[q] = (IF op \in AdminOps THEN "admin" ELSE op)
    BY <1>4, BeginsMoves
  <2> QED BY <2>1 DEF AllOps, AdminOps, EnrolOps, LoginOps, Counting
<1>5. ~Restart
  BY RestartIdle DEF Counting
<1>6. CASE UNCHANGED <<pc, job, read>>
  BY <1>2, <1>6 DEF Stays
<1> QED BY <1>2, <1>3, <1>4, <1>5, <1>6, NextCases, WorksMoves, BeginsMoves, SignQuiet
     DEF vars

LEMMA UnmixedStep == Typed /\ Unmixed /\ [Next]_vars => Unmixed'
<1> SUFFICES ASSUME Typed, Unmixed, [Next]_vars, "mixed" \in calm',
                    NEW p \in Handlers, NEW q \in Handlers,
                    Busy(p, EnrolOps)', Busy(q, LoginOps)'
             PROVE  FALSE
  BY DEF Unmixed, Busy
<1>1. ASSUME "mixed" \in calm, Busy(p, EnrolOps), Busy(q, LoginOps) PROVE FALSE
  BY <1>1 DEF Unmixed
<1>2. ASSUME NEW r \in Handlers, Works(r) PROVE FALSE
  BY <1>1, <1>2, WorksMoves DEF Busy, Stays
<1>3. ASSUME NEW r \in Handlers, NEW op \in AllOps, Begins(r, op) PROVE FALSE
  <2>1. /\ "mixed" \in calm /\ job'[r].op = op /\ \A s \in Handlers \ {r} : Stays(s)
        /\ \A s \in Handlers \ {r} : pc[s] # "idle" => "mixed" \notin Kinds(op, job[s].op)
    BY <1>3, BeginsMoves
  <2>2. \A o \in EnrolOps, l \in LoginOps : "mixed" \in Kinds(o, l) /\ "mixed" \in Kinds(l, o)
    BY DEF Kinds
  <2>3. EnrolOps \cap LoginOps = {}
    BY DEF EnrolOps, LoginOps
  <2>4. CASE p # r /\ q # r
    BY <1>1, <2>1, <2>4 DEF Busy, Stays
  <2>5. CASE p = r /\ q # r
    BY <2>1, <2>2, <2>5 DEF Busy, Stays
  <2>6. CASE p # r /\ q = r
    BY <2>1, <2>2, <2>6 DEF Busy, Stays
  <2>7. CASE p = r /\ q = r
    BY <2>3, <2>7 DEF Busy
  <2> QED BY <2>4, <2>5, <2>6, <2>7
<1>4. CASE Restart
  BY <1>4, RestartIdle DEF Busy
<1>5. CASE UNCHANGED <<pc, job, calm>>
  BY <1>1, <1>5 DEF Busy
<1> QED BY <1>2, <1>3, <1>4, <1>5, NextCases, SignQuiet DEF vars

(* A challenge that is out of the store stays out of it.                     *)
LEMMA UnaskedStays ==
  ASSUME Typed, [Next]_vars, NEW c \in Nat, Unasked(c)
  PROVE  Unasked(c)'
<1>0. DataOK /\ begun \in Nat /\ None \notin Nat
  BY NoneAssumption DEF Typed, TypeOK, DataOK
<1>1. ASSUME begun' = begun, \A u \in Uids : reg'[u] \in {reg[u], None}
      PROVE  Unasked(c)'
  BY <1>0, <1>1 DEF Unasked
<1>2. ASSUME NEW p \in Handlers, Works(p) PROVE Unasked(c)'
  <2>1. CASE RegisterBegin(p)
    <3>1. begun' = begun + 1 /\ \A u \in Uids : reg'[u] \in {reg[u], begun + 1}
      BY <1>0, <2>1 DEF RegisterBegin, NewChallenge, DataOK
    <3> QED BY <1>0, <3>1 DEF Unasked
  <2>2. CASE LoginBegin(p)
    <3>1. begun' = begun + 1 /\ reg' = reg
      BY <2>2 DEF LoginBegin
    <3> QED BY <1>0, <3>1 DEF Unasked
  <2>3. CASE FinishForgets(p)
    BY <1>0, <1>1, <2>3 DEF FinishForgets, From, DataOK
  <2>4. CASE UNCHANGED <<reg, begun>>
    BY <1>1, <2>4
  <2> QED BY <1>2, <2>1, <2>2, <2>3, <2>4, WorksCeremonies
          DEF LoginForgets, ReplacePasskeys, SetSession, From, memory
<1>3. ASSUME NEW p \in Handlers, NEW op \in AllOps, Begins(p, op) PROVE Unasked(c)'
  BY <1>1, <1>3, BeginsMoves DEF memory
<1>4. CASE Restart
  BY <1>1, <1>4, RestartIdle
<1>5. CASE UNCHANGED <<reg, begun>>
  BY <1>1, <1>5
<1> QED BY <1>2, <1>3, <1>4, <1>5, NextCases, SignQuiet DEF vars, memory

LEMMA KnownStep ==
  Typed /\ PasskeysHaveUser /\ Placed /\ Known /\ [Next]_vars => Known'
<1> SUFFICES ASSUME Typed, PasskeysHaveUser, Placed, Known, [Next]_vars PROVE Known'
  OBVIOUS
<1>0. DataOK /\ ControlOK /\ Credentials \subseteq Nat /\ None \notin Nat /\ begun \in Nat
  BY NoneAssumption, BoundsAssumption DEF Typed, TypeOK, DataOK, Credentials
<1>1. ASSUME NEW c \in Credentials, Unasked(c) PROVE Unasked(c)'
  BY <1>0, <1>1, UnaskedStays
<1>2. ASSUME NEW u \in Uids, NEW c \in Held(passkeys'[u]) PROVE Unasked(c)'
  <2>0. c \in Credentials /\ passkeys'[u][c] # None
    BY DEF Held
  <2>1. CASE passkeys'[u] = passkeys[u]
    BY <1>1, <2>0, <2>1 DEF Known, Held
  <2>2. CASE passkeys'[u] = Nothing
    BY <2>0, <2>2 DEF Nothing
  <2>3. ASSUME NEW p \in Handlers, Writes(p, u) PROVE Unasked(c)'
    <3>1. pc[p] = "replace" /\ read[p] \in Keys /\ passkeys'[u] = Collected(p)
      BY <1>0, <2>3 DEF Writes, ReplacePasskeys, From, ControlOK
    <3>2. c = Arg(p) \/ read[p][c] # None
      BY <2>0, <3>1 DEF Collected, Keys
    <3>3. CASE c = Arg(p)
      <4>1. Gone(Arg(p))
        BY <3>1 DEF Placed, StillPlaced, Forgotten
      <4> QED BY <1>1, <2>0, <3>3, <4>1 DEF Gone, Unasked
    <3>4. CASE read[p][c] # None
      BY <1>1, <2>0, <3>1, <3>4 DEF Known, Held, Reading
    <3> QED BY <3>2, <3>3, <3>4
  <2>4. ASSUME NEW p \in Handlers, Counts(p, u) PROVE Unasked(c)'
    <3>1. passkeys[u] \in Keys
      BY <1>0 DEF DataOK
    <3>2. passkeys[u][c] # None
      BY <2>0, <2>4, <3>1 DEF Counts, Keys
    <3> QED BY <1>1, <2>0, <3>2 DEF Known, Held
  <2>5. CASE Imports(u)
    <3>1. c = 0
      BY <2>0, <2>5 DEF Imports, ImportedKeys
    <3> QED BY <1>0, <2>5, <3>1, RestartIdle DEF Imports, Unasked
  <2> QED BY <2>1, <2>2, <2>3, <2>4, <2>5, KeysChange
<1>3. ASSUME NEW q \in Handlers, pc'[q] \in Reading, NEW c \in Held(read'[q])
      PROVE  Unasked(c)'
  <2>0. c \in Credentials /\ read'[q][c] # None
    BY DEF Held
  <2>1. CASE pc[q] \in Reading /\ read'[q] = read[q]
    BY <1>1, <2>0, <2>1 DEF Known, Held
  <2>2. CASE ReadsNow(q) /\ Uid(q) \in Uids
    BY <1>1, <2>0, <2>2 DEF Known, Held, ReadsNow
  <2> QED BY <1>3, <2>1, <2>2, ReadingComes
<1> QED BY <1>2, <1>3 DEF Known, Held

(* What is known of the table, or of what another enrolment read, when a     *)
(* request reads on: its challenge was in the store when it was verified.    *)
LEMMA AddsOn ==
  ASSUME Known, NEW q \in Handlers, pc[q] \in Reading, Uid(q) \in Uids,
         Arg(q) \in Credentials,
         NEW k \in Keys, Adds(q, k), \A c \in Held(k) : Unasked(c),
         Enrols(q)' => Enrols(q) \/ reg[Uid(q)] = Arg(q)
  PROVE  Agree(read[q], k) /\ (Enrols(q)' => Unused(k, Arg(q)))
BY DEF Adds, Unused, Unasked, Held

LEMMA EnrolsAgreeStep ==
  /\ Typed /\ PasskeysHaveUser /\ Unmixed /\ Known /\ EnrolsAgree /\ [Next]_vars
  => EnrolsAgree'
<1> SUFFICES ASSUME Typed, PasskeysHaveUser, Unmixed, Known, EnrolsAgree, [Next]_vars,
                    "mixed" \in calm', NEW q \in Handlers, pc'[q] \in Reading
             PROVE  /\ Adds(q, passkeys[Uid(q)])'
                    /\ \A r \in Handlers : pc'[r] \in Reading /\ Uid(r)' = Uid(q)' =>
                         Adds(q, read[r])'
  BY DEF EnrolsAgree
<1>0. DataOK /\ ControlOK /\ calm' \subseteq calm
  <2>1. ASSUME NEW p \in Handlers, Works(p) PROVE calm' = calm
    BY <2>1, WorksMoves
  <2>2. ASSUME NEW p \in Handlers, NEW op \in AllOps, Begins(p, op) PROVE calm' \subseteq calm
    BY <2>2, BeginsMoves
  <2> QED BY <2>1, <2>2, NextCases, RestartIdle, SignQuiet DEF Typed, TypeOK, vars
<1>m. "mixed" \in calm
  BY <1>0
<1> DEFINE u == Uid(q)
           a == Arg(q)
           On(k) == Agree(read'[q], k) /\ (Enrols(q)' => Unused(k, a))
<1>a. /\ job'[q] = job[q] /\ u \in Uids /\ Busy(q, EnrolOps) /\ a \in Credentials
      /\ \/ /\ pc[q] \in Reading /\ read'[q] = read[q]
            /\ Enrols(q)' => Enrols(q) \/ reg[u] = a
         \/ ReadsNow(q) /\ ~Enrols(q)'
  BY ReadingComes
<1>b. Uid(q)' = u /\ Arg(q)' = a
  BY <1>a DEF Uid, Arg
<1>c. \A k : Agree(k, k)
  BY DEF Agree
<1>1. ASSUME NEW r \in Handlers, pc[r] \in Reading, Uid(r) = u PROVE On(read[r])
  <2>1. read[r] \in Keys /\ \A c \in Held(read[r]) : Unasked(c)
    BY <1>0, <1>1 DEF ControlOK, Known
  <2>2. CASE pc[q] \in Reading /\ read'[q] = read[q] /\ (Enrols(q)' => Enrols(q) \/ reg[u] = a)
    <3>1. Adds(q, read[r])
      BY <1>m, <1>1, <2>2 DEF EnrolsAgree
    <3> QED BY <1>a, <2>1, <2>2, <3>1, AddsOn
  <2>3. CASE ReadsNow(q) /\ ~Enrols(q)'
    <3>1. Agree(read[r], passkeys[u])
      BY <1>m, <1>1 DEF EnrolsAgree, Adds
    <3> QED BY <2>3, <3>1 DEF ReadsNow, Agree
  <2> QED BY <1>a, <2>2, <2>3
<1>2. On(passkeys[u])
  <2>1. passkeys[u] \in Keys /\ \A c \in Held(passkeys[u]) : Unasked(c)
    BY <1>0, <1>a DEF DataOK, Known
  <2>2. CASE pc[q] \in Reading /\ read'[q] = read[q] /\ (Enrols(q)' => Enrols(q) \/ reg[u] = a)
    <3>1. Adds(q, passkeys[u])
      BY <1>m, <2>2 DEF EnrolsAgree
    <3> QED BY <1>a, <2>1, <2>2, <3>1, AddsOn
  <2>3. CASE ReadsNow(q) /\ ~Enrols(q)'
    BY <1>c, <2>3 DEF ReadsNow
  <2> QED BY <1>a, <2>2, <2>3
<1>3. On(passkeys'[u])
  <2>1. CASE passkeys'[u] = passkeys[u]
    BY <1>2, <2>1
  <2>2. CASE passkeys'[u] = Nothing
    BY <1>a, <2>2 DEF Nothing, Agree, Unused
  <2>3. ASSUME NEW p \in Handlers, Writes(p, u) PROVE On(passkeys'[u])
    <3>1. /\ pc[p] = "replace" /\ Uid(p) = u /\ pc[p] \in Reading /\ Enrols(p)
          /\ passkeys'[u] = Collected(p) /\ read[p] \in Keys
      BY <1>0, <2>3 DEF Writes, ReplacePasskeys, From, Reading, Enrols, ControlOK
    <3>2. On(read[p])
      BY <1>1, <3>1
    <3>3. read'[q][Arg(p)] \in {None, 0}
      <4>1. CASE pc[q] \in Reading /\ read'[q] = read[q]
        BY <1>m, <3>1, <4>1 DEF EnrolsAgree, Adds, Unused
      <4>2. CASE ReadsNow(q)
        BY <1>m, <3>1, <4>2 DEF EnrolsAgree, Adds, Unused, ReadsNow
      <4> QED BY <1>a, <4>1, <4>2
    <3>4. /\ \A c \in Credentials : c # Arg(p) => passkeys'[u][c] = read[p][c]
          /\ \A c \in Credentials : c = Arg(p) => passkeys'[u][c] = 0
      BY <3>1 DEF Collected, Keys
    <3> QED BY <1>a, <3>2, <3>3, <3>4 DEF Agree, Unused
  <2>4. ASSUME NEW p \in Handlers, Counts(p, u) PROVE FALSE
    <3>1. Busy(p, LoginOps)
      <4>1. JobFits(p) /\ pc[p] = "store"
        BY <2>4 DEF Counts, CountUpdates, From, Typed
      <4> QED BY <4>1 DEF JobFits, AtAssert, Counting, Asserts, Busy, LoginOps
    <3> QED BY <1>m, <1>a, <3>1 DEF Unmixed
  <2>5. ~Imports(u)
    BY RestartIdle DEF Imports, Reading
  <2> QED BY <1>a, <2>1, <2>2, <2>3, <2>4, <2>5, KeysChange
<1>4. ASSUME NEW r \in Handlers, pc'[r] \in Reading, Uid(r)' = u PROVE On(read'[r])
  <2>1. job'[r] = job[r]
    BY <1>4, ReadingComes
  <2>2. Uid(r) = u
    BY <1>4, <2>1 DEF Uid
  <2>3. CASE pc[r] \in Reading /\ read'[r] = read[r]
    BY <1>1, <2>2, <2>3
  <2>4. CASE ReadsNow(r)
    BY <1>2, <2>2, <2>4 DEF ReadsNow
  <2> QED BY <1>4, <2>3, <2>4, ReadingComes
<1> QED BY <1>b, <1>3, <1>4 DEF Adds, Agree, Unused

LEMMA LoginsAgreeStep ==
  /\ Typed /\ PasskeysHaveUser /\ AllAlone /\ Unmixed /\ LoginsAgree /\ [Next]_vars
  => LoginsAgree'
<1> SUFFICES ASSUME Typed, PasskeysHaveUser, AllAlone, Unmixed, LoginsAgree, [Next]_vars,
                    {"login", "mixed"} \subseteq calm',
                    NEW q \in Handlers, pc'[q] \in Counting
             PROVE  passkeys'[Uid(q)'][signed'[Arg(q)'].cred]
                      \in {None, read'[q][signed'[Arg(q)'].cred]}
  BY DEF LoginsAgree, KnownCount
<1>0. DataOK /\ ControlOK /\ calm' \subseteq calm
  <2>1. ASSUME NEW p \in Handlers, Works(p) PROVE calm' = calm
    BY <2>1, WorksMoves
  <2>2. ASSUME NEW p \in Handlers, NEW op \in AllOps, Begins(p, op) PROVE calm' \subseteq calm
    BY <2>2, BeginsMoves
  <2> QED BY <2>1, <2>2, NextCases, RestartIdle, SignQuiet DEF Typed, TypeOK, vars
<1>m. {"login", "mixed"} \subseteq calm
  BY <1>0
<1> DEFINE u == Uid(q)
           c == signed[Arg(q)].cred
<1>a. /\ job'[q] = job[q] /\ signed'[Arg(q)] = signed[Arg(q)]
      /\ u \in Uids /\ c \in Credentials /\ Busy(q, LoginOps)
      /\ (pc[q] \in Counting /\ read'[q] = read[q]) \/ ReadsNow(q)
  BY CountingComes
<1>b. Uid(q)' = u /\ signed'[Arg(q)'].cred = c
  BY <1>a DEF Uid, Arg
<1>1. CASE ReadsNow(q)
  BY <1>b, <1>1 DEF ReadsNow
<1>2. CASE pc[q] \in Counting /\ read'[q] = read[q]
  <2>0. passkeys[u][c] \in {None, read[q][c]}
    BY <1>m, <1>2 DEF LoginsAgree, KnownCount
  <2>1. CASE passkeys'[u] = passkeys[u]
    BY <1>b, <1>2, <2>0, <2>1
  <2>2. CASE passkeys'[u] = Nothing
    BY <1>a, <1>b, <2>2 DEF Nothing
  <2>3. ASSUME NEW p \in Handlers, Writes(p, u) PROVE FALSE
    <3>1. JobFits(p) /\ pc[p] = "replace"
      BY <2>3 DEF Writes, ReplacePasskeys, From, Typed
    <3>2. Busy(p, EnrolOps)
      BY <3>1 DEF JobFits, AtFinish, Reading, Busy, EnrolOps
    <3> QED BY <1>m, <1>a, <3>2 DEF Unmixed
  <2>4. ASSUME NEW p \in Handlers, Counts(p, u) PROVE FALSE
    <3>1. JobFits(p) /\ pc[p] = "store" /\ CountUpdates(p)
      BY <2>4 DEF Counts, CountUpdates, From, Typed
    <3>2. Busy(p, LoginOps)
      BY <3>1 DEF JobFits, AtAssert, Counting, Asserts, Busy, LoginOps
    <3>3. p = q
      BY <1>m, <1>a, <3>2 DEF AllAlone, Alone
    <3>4. pc'[p] = "session"
      BY <1>0, <3>1, GotoMoves DEF CountUpdates
    <3> QED BY <3>3, <3>4 DEF Counting
  <2>5. ~Imports(u)
    BY RestartIdle DEF Imports, Counting
  <2> QED BY <1>a, <2>1, <2>2, <2>3, <2>4, <2>5, KeysChange
<1> QED BY <1>a, <1>1, <1>2

-----------------------------------------------------------------------------
SignInv == Unmixed /\ Known /\ EnrolsAgree /\ LoginsAgree

LEMMA SignInductive == Spec => []SignInv
<1>1. Init => SignInv
  <2> SUFFICES ASSUME Init PROVE SignInv
    OBVIOUS
  <2>1. \A p \in Handlers : pc[p] = "idle"
    BY DEF Init
  <2>2. Unmixed /\ EnrolsAgree /\ LoginsAgree
    BY <2>1 DEF Unmixed, Busy, EnrolsAgree, Reading, LoginsAgree, Counting
  <2>3. \A u \in Uids : \A c \in Held(passkeys[u]) : c = 0
    BY DEF Init, ImportedKeys, Held
  <2>4. Unasked(0)
    BY NoneAssumption DEF Init, Unasked, Nobody
  <2>5. Known
    BY <2>1, <2>3, <2>4 DEF Known, Reading
  <2> QED BY <2>2, <2>5 DEF SignInv
<1>2. IInv /\ SignInv /\ [Next]_vars => SignInv'
  BY UnmixedStep, KnownStep, EnrolsAgreeStep, LoginsAgreeStep DEF IInv, SignInv
<1> QED BY <1>1, <1>2, Inductive, PTL DEF Spec

(* No step takes a stored sign count back, if logins overlap neither with    *)
(* each other nor with enrolments.                                           *)
THEOREM CountsNeverGoBack == Spec => SignCountsAdvance
<1> DEFINE Advances ==
      {"login", "mixed"} \subseteq calm =>
        \A u \in Uids : \A c \in Held(passkeys[u]) :
          passkeys'[u][c] # None => passkeys'[u][c] >= passkeys[u][c]
<1>1. IInv /\ SignInv /\ [Next]_vars => Advances
  <2> SUFFICES ASSUME IInv, SignInv, [Next]_vars, {"login", "mixed"} \subseteq calm,
                      NEW u \in Uids, NEW c \in Held(passkeys[u]), passkeys'[u][c] # None
               PROVE  passkeys'[u][c] >= passkeys[u][c]
    OBVIOUS
  <2>0. /\ Typed /\ PasskeysHaveUser /\ DataOK /\ ControlOK
        /\ Unmixed /\ Known /\ EnrolsAgree /\ LoginsAgree
    BY DEF IInv, Typed, TypeOK, SignInv
  <2>1. c \in Credentials /\ passkeys[u][c] # None /\ passkeys[u] \in Keys /\ passkeys[u][c] \in Nat
    BY <2>0, BoundsAssumption DEF Held, DataOK, Keys, SignCounts
  <2>2. CASE passkeys'[u] = passkeys[u]
    BY <2>1, <2>2
  <2>3. CASE passkeys'[u] = Nothing
    BY <2>1, <2>3 DEF Nothing
  <2>4. ASSUME NEW p \in Handlers, Writes(p, u) PROVE passkeys'[u][c] >= passkeys[u][c]
    <3>1. /\ pc[p] \in Reading /\ Enrols(p) /\ Uid(p) = u /\ read[p] \in Keys
          /\ passkeys'[u] = Collected(p)
      BY <2>0, <2>4 DEF Writes, ReplacePasskeys, From, Reading, Enrols, ControlOK
    <3>2. Agree(read[p], passkeys[u]) /\ Unused(passkeys[u], Arg(p))
      BY <2>0, <3>1 DEF EnrolsAgree, Adds
    <3>3. passkeys'[u][c] = (IF c = Arg(p) THEN 0 ELSE read[p][c])
      BY <2>1, <3>1 DEF Collected, Keys
    <3>4. passkeys'[u][c] = passkeys[u][c]
      BY <2>1, <3>2, <3>3 DEF Agree, Unused
    <3> QED BY <2>1, <3>4
  <2>5. ASSUME NEW p \in Handlers, Counts(p, u) PROVE passkeys'[u][c] >= passkeys[u][c]
    <3>1. CASE c # signed[Arg(p)].cred
      <4>1. passkeys'[u][c] = passkeys[u][c]
        BY <2>1, <2>5, <3>1 DEF Counts, Keys
      <4> QED BY <2>1, <4>1
    <3>2. CASE c = signed[Arg(p)].cred
      <4>1. pc[p] = "store" /\ Uid(p) = u /\ JobFits(p)
        BY <2>0, <2>5 DEF Counts, CountUpdates, From, Typed
      <4>2. passkeys[u][c] = KnownCount(p)
        BY <2>0, <2>1, <3>2, <4>1 DEF LoginsAgree, Counting
      <4>3. passkeys'[u][c] = NewCount(p)
        BY <2>1, <2>5, <3>2 DEF Counts, Keys
      <4>4. Signed(p) \in Nat
        <5>1. Asserts(p)
          BY <4>1 DEF JobFits, AtAssert, Counting
        <5>2. signed[Arg(p)] \in Assertions
          BY <2>0, <5>1 DEF Asserts, DataOK
        <5> QED BY <5>2, BoundsAssumption DEF Assertions, SignCounts, Signed
      <4> QED BY <2>1, <4>2, <4>3, <4>4 DEF NewCount
    <3> QED BY <3>1, <3>2
  <2>6. ~Imports(u)
    BY <2>1 DEF Imports, Nothing
  <2> QED BY <2>0, <2>2, <2>3, <2>4, <2>5, <2>6, KeysChange
<1>2. IInv /\ SignInv /\ [Next]_vars => [Advances]_vars
  BY <1>1
<1> QED BY <1>2, Inductive, SignInductive, PTL DEF Spec, SignCountsAdvance
=============================================================================
