----------------------------- MODULE UserStore ------------------------------
(***************************************************************************)
(* The users and passkeys tables behind their handlers: accounts made,      *)
(* deleted and given new tokens by admins, passkeys enrolled by their users, *)
(* logins by token and by passkey, and the import of users.yml into an empty *)
(* table at startup.                                                        *)
(*                                                                         *)
(* One database connection makes every statement, and every transaction, a  *)
(* step of its own; a handler is several of them.  An authenticator answers *)
(* a challenge with a new credential, so a credential has the number of its *)
(* challenge; 0 is the passkey that users.yml lists.                        *)
(***************************************************************************)
EXTENDS Integers, FiniteSets

CONSTANTS
  Uids,           \* the user ids
  Yaml,           \* the users listed in users.yml
  YamlAdmins,     \* the admins among them
  YamlHolder,     \* the one with a passkey, if any
  None,           \* no row, no passkey, no ceremony
  Handlers,       \* the requests in flight
  Ops,            \* what each of them asks for
  Faults,         \* {"store"}: a statement may fail
  MaxChallenges,  \* bound on the registrations and logins begun
  MaxServed,      \* bound on the requests served
  MaxCrashes      \* bound on the restarts

AdminOps == {"delete", "create", "rotate"}
EnrolOps == {"begin", "finish"}
LoginOps == {"challenge", "assert"}
AllOps == AdminOps \cup EnrolOps \cup LoginOps \cup {"token"}
Credentials == 0..MaxChallenges
Challenges == 1..MaxChallenges
Tokens == Uids \cup 1..MaxServed

ASSUME UsersAssumption ==
  /\ Yaml \subseteq Uids /\ YamlAdmins \subseteq Yaml
  /\ YamlHolder \in Yaml \cup {None}
ASSUME NoneAssumption ==
  None \notin Uids \cup Nat \cup AllOps \cup {"user", "admin"}
ASSUME OpsAssumption ==
  /\ Ops \in [Handlers -> SUBSET AllOps]
  /\ Faults \subseteq {"store"}
ASSUME BoundsAssumption ==
  MaxChallenges \in Nat /\ MaxServed \in Nat /\ MaxCrashes \in Nat

VARIABLES
  users,      \* the users table: user, admin, or None
  tokens,     \* its token hashes, by the token they are of
  passkeys,   \* the passkeys table: the sign count of each credential
  reg,        \* passkeySessionStore, the "reg:" entries
  logins,     \* passkeySessionStore, the "login:" entries
  begun,      \* the number of challenges issued
  signed,     \* what an authenticator answered to a login challenge
  imports,    \* how often users.yml was imported
  pc,         \* where each handler is
  job,        \* what it is to do, for whom, to whom
  read,       \* the passkeys it read
  served,     \* how many requests were begun
  crashes,    \* how often the session manager was restarted
  enrolled,   \* history: the credentials answered "ok" since the row was made
  retired,    \* history: tokens deleted, or replaced as an admin was told
  answered,   \* history: the challenges answered with "ok"
  calm        \* history: the kinds of requests that have not overlapped

tables == <<users, tokens, passkeys>>
memory == <<reg, logins, begun>>
history == <<enrolled, retired, answered>>
vars == <<tables, memory, signed, imports, pc, job, read, served, crashes,
          history, calm>>

(* The token of a user in users.yml has the name of that user.               *)
Job(op, caller, uid, arg, fresh) ==
  [op |-> op, caller |-> caller, uid |-> uid, arg |-> arg, fresh |-> fresh]
NoJob == Job(None, None, None, None, TRUE)
Nobody == [u \in Uids |-> None]
Nothing == [c \in Credentials |-> None]
Imported == [u \in Uids |-> IF u \in YamlAdmins THEN "admin"
                            ELSE IF u \in Yaml THEN "user" ELSE None]
ImportedTokens == [u \in Uids |-> IF u \in Yaml THEN u ELSE None]
ImportedKeys == [u \in Uids |-> [c \in Credentials |->
                  IF u = YamlHolder /\ c = 0 THEN 0 ELSE None]]
Held(keys) == {c \in Credentials : keys[c] # None}

(* The first startup has imported users.yml.                                 *)
Init ==
  /\ users = Imported /\ tokens = ImportedTokens /\ imports = 1
  /\ passkeys = ImportedKeys
  /\ enrolled = [u \in Uids |-> Held(ImportedKeys[u])]
  /\ reg = Nobody /\ logins = {} /\ begun = 0
  /\ signed = [n \in Challenges |-> None]
  /\ pc = [p \in Handlers |-> "idle"] /\ job = [p \in Handlers |-> NoJob]
  /\ read = [p \in Handlers |-> Nothing]
  /\ served = 0 /\ crashes = 0
  /\ retired = {} /\ answered = {}
  /\ calm = {"admin", "enrol", "login", "mixed"}

Fails == "store" \in Faults
Work(p, l, j, keys) ==
  /\ pc' = [pc EXCEPT ![p] = l] /\ job' = [job EXCEPT ![p] = j]
  /\ read' = [read EXCEPT ![p] = keys]
Done(p) == Work(p, "idle", NoJob, Nothing)
Reads(p, l, keys) == Work(p, l, job[p], keys)
Goto(p, l) == IF l = "idle" THEN Done(p) ELSE Reads(p, l, read[p])
From(p, l) ==
  pc[p] = l /\ UNCHANGED <<begun, signed, imports, served, crashes, calm>>
Uid(p) == job[p].uid
Arg(p) == job[p].arg

(* Two requests of these kinds are in flight at the same time.               *)
Kinds(o, q) ==
  {k \in {"admin", "enrol", "login", "mixed"} :
     \/ k = "admin" /\ {o, q} \subseteq AdminOps
     \/ k = "enrol" /\ {o, q} \subseteq EnrolOps
     \/ k = "login" /\ {o, q} \subseteq LoginOps
     \/ k = "mixed" /\ {o, q} \cap EnrolOps # {} /\ {o, q} \cap LoginOps # {}}

Starts(p, op, caller, uid, arg) ==
  /\ pc[p] = "idle" /\ op \in Ops[p] /\ served < MaxServed
  /\ Work(p, IF op \in AdminOps THEN "admin" ELSE op,
          Job(op, caller, uid, arg, arg \notin retired), Nothing)
  /\ calm' = calm \ UNION {Kinds(op, job[q].op) :
                            q \in {q \in Handlers : pc[q] # "idle"}}
  /\ served' = served + 1
  /\ UNCHANGED <<tables, memory, signed, imports, crashes, history>>

(* requireAuth lets the users of the table in; an enrolment asks for no more *)
(* than the cookie, and a login for nothing.                                 *)
BeginAdmin(p) ==
  \E op \in AdminOps, caller \in Uids, uid \in Uids :
    users[caller] # None /\ Starts(p, op, caller, uid, None)

BeginEnrol(p) ==
  \E u \in Uids : \/ Starts(p, "begin", u, u, None)
                  \/ \E n \in 1..begun : Starts(p, "finish", u, u, n)

BeginLogin(p) ==
  \/ Starts(p, "challenge", None, None, None)
  \/ \E n \in Challenges :
       signed[n] # None /\ Starts(p, "assert", None, signed[n].uid, n)

BeginToken(p) ==
  \E t \in retired \cup {tokens[u] : u \in Uids} :
    t # None /\ Starts(p, "token", None, None, t)

-----------------------------------------------------------------------------
(* The admin API.                                                            *)

(* adminOnly                                                                 *)
AdminCheck(p) ==
  /\ From(p, "admin")
  /\ Goto(p, IF users[job[p].caller] = "admin" THEN job[p].op ELSE "idle")
  /\ UNCHANGED <<tables, memory, history>>

(* Mistake: an admin may delete the own account.                             *)
AnyAccount(p) == TRUE
OtherAccount(p) == Uid(p) # job[p].caller

DeleteLooksUp(p) ==
  /\ From(p, "delete")
  /\ Goto(p, IF OtherAccount(p) /\ users[Uid(p)] # None
             THEN "drop" ELSE "idle")
  /\ UNCHANGED <<tables, memory, history>>

(* Its passkeys go with the row.                                             *)
DropUser(p) ==
  /\ From(p, "drop")
  /\ users' = [users EXCEPT ![Uid(p)] = None]
  /\ tokens' = [tokens EXCEPT ![Uid(p)] = None]
  /\ passkeys' = [passkeys EXCEPT ![Uid(p)] = Nothing]
  /\ enrolled' = [enrolled EXCEPT ![Uid(p)] = {}]
  /\ retired' = retired \cup ({tokens[Uid(p)]} \ {None})
  /\ Done(p) /\ UNCHANGED <<memory, answered>>

(* newRawToken: one that was never seen before; the bound leaves one.        *)
Unseen == {t \in 1..MaxServed : t \notin retired /\ \A u \in Uids : tokens[u] # t}
NewToken == CHOOSE t \in Unseen : TRUE
GivesToken(p) == Unseen # {} /\ tokens' = [tokens EXCEPT ![Uid(p)] = NewToken]

CreateUser(p) ==
  /\ From(p, "create")
  /\ IF users[Uid(p)] = None
     THEN users' = [users EXCEPT ![Uid(p)] = "user"] /\ GivesToken(p)
     ELSE UNCHANGED <<users, tokens>>
  /\ Done(p) /\ UNCHANGED <<passkeys, memory, history>>

RotateLooksUp(p) ==
  /\ From(p, "rotate")
  /\ Goto(p, IF users[Uid(p)] # None THEN "renew" ELSE "idle")
  /\ UNCHANGED <<tables, memory, history>>

(* The admin is told the new token if the row was there to be updated.       *)
RotateToken(p) ==
  /\ From(p, "renew")
  /\ IF users[Uid(p)] = None THEN UNCHANGED <<tokens, retired>>
     ELSE GivesToken(p) /\ retired' = retired \cup {tokens[Uid(p)]}
  /\ Done(p)
  /\ UNCHANGED <<users, passkeys, memory, enrolled, answered>>

(* Mistake: the error is logged and the new token answered.                  *)
AnswersAnyway(p) == retired' = retired \cup {tokens[Uid(p)]}
RotateError(p) == UNCHANGED retired

RotateFails(p) ==
  /\ Fails /\ From(p, "renew")
  /\ RotateError(p)
  /\ Done(p) /\ UNCHANGED <<tables, memory, enrolled, answered>>

-----------------------------------------------------------------------------
(* Enrolment of a passkey.                                                   *)

NewChallenge == begun + 1

RegisterBegin(p) ==
  /\ pc[p] = "begin" /\ users[Uid(p)] # None /\ begun < MaxChallenges
  /\ begun' = begun + 1
  /\ reg' = [reg EXCEPT ![Uid(p)] = NewChallenge]
  /\ Done(p)
  /\ UNCHANGED <<tables, logins, signed, imports, served, crashes,
                 history, calm>>

(* ByUID finds no row, or the bound is reached.                              *)
RegisterRefused(p) ==
  /\ From(p, "begin")
  /\ users[Uid(p)] = None \/ begun = MaxChallenges
  /\ Done(p) /\ UNCHANGED <<tables, memory, history>>

FinishReads(p) ==
  /\ From(p, "finish")
  /\ IF users[Uid(p)] = None THEN Done(p)
     ELSE Reads(p, "ceremony", passkeys[Uid(p)])
  /\ UNCHANGED <<tables, memory, history>>

(* The response must be to the challenge in the store.                       *)
FinishVerifies(p) ==
  /\ From(p, "ceremony")
  /\ Goto(p, IF reg[Uid(p)] = Arg(p) THEN "forget" ELSE "idle")
  /\ UNCHANGED <<tables, memory, history>>

FinishForgets(p) ==
  /\ From(p, "forget")
  /\ reg' = [reg EXCEPT ![Uid(p)] = None]
  /\ Goto(p, "count") /\ UNCHANGED <<tables, logins, history>>

(* UpdatePasskeys: first a SELECT, then the transaction.                     *)
CountsUser(p) ==
  /\ From(p, "count")
  /\ Goto(p, IF users[Uid(p)] # None THEN "replace" ELSE "idle")
  /\ UNCHANGED <<tables, memory, history>>

(* Mistake: foreign keys are not enforced.                                   *)
ReferenceIgnored(u) == TRUE
ReferenceHolds(u) == users[u] # None

(* Mistake: the passkeys read are not written back.                          *)
OnlyNew(p) == [Nothing EXCEPT ![Arg(p)] = 0]
Collected(p) == [read[p] EXCEPT ![Arg(p)] = 0]

ReplacePasskeys(p) ==
  /\ From(p, "replace")
  /\ ReferenceHolds(Uid(p)) /\ read[p][Arg(p)] = None
  /\ passkeys' = [passkeys EXCEPT ![Uid(p)] = Collected(p)]
  /\ enrolled' = [enrolled EXCEPT ![Uid(p)] = @ \cup {Arg(p)}]
  /\ answered' = answered \cup {Arg(p)}
  /\ Done(p) /\ UNCHANGED <<users, tokens, memory, retired>>

(* A broken reference or a key inserted twice rolls the transaction back.    *)
RollsBack(p) ==
  /\ From(p, "replace")
  /\ ~ReferenceHolds(Uid(p)) \/ read[p][Arg(p)] # None
  /\ Done(p) /\ UNCHANGED <<tables, memory, history>>

-----------------------------------------------------------------------------
(* Logins.                                                                   *)

LoginBegin(p) ==
  /\ pc[p] = "challenge" /\ begun < MaxChallenges
  /\ begun' = begun + 1 /\ logins' = logins \cup {NewChallenge}
  /\ Done(p)
  /\ UNCHANGED <<tables, reg, signed, imports, served, crashes,
                 history, calm>>

(* An authenticator signs the challenge and the number of its signatures.    *)
Sign(n, u, c) ==
  /\ n \in logins /\ signed[n] = None
  /\ LET count == Cardinality({k \in Challenges :
                                 signed[k] # None /\ signed[k].cred = c})
     IN signed' = [signed EXCEPT
                     ![n] = [uid |-> u, cred |-> c, count |-> count + 1]]
  /\ UNCHANGED <<tables, memory, imports, pc, job, read, served, crashes,
                 history, calm>>

LoginLooksUp(p) ==
  /\ From(p, "assert")
  /\ Goto(p, IF Arg(p) \in logins THEN "verify" ELSE "idle")
  /\ UNCHANGED <<tables, memory, history>>

(* ByUID of the user handle; the credential must be among its passkeys.      *)
LoginVerifies(p) ==
  /\ From(p, "verify")
  /\ IF users[Uid(p)] # None /\ passkeys[Uid(p)][signed[Arg(p)].cred] # None
     THEN Reads(p, "spend", passkeys[Uid(p)])
     ELSE Done(p)
  /\ UNCHANGED <<tables, memory, history>>

(* Mistake: the ceremony can be finished again.                              *)
KeepCeremony(p) == UNCHANGED logins
EndCeremony(p) == logins' = logins \ {Arg(p)}

LoginForgets(p) ==
  /\ From(p, "spend")
  /\ EndCeremony(p)
  /\ Goto(p, "compare") /\ UNCHANGED <<tables, reg, history>>

(* Mistake: the library is not told the count that is stored.                *)
CountUnknown(p) == 0
KnownCount(p) == read[p][signed[Arg(p)].cred]
(* A count that is not above the one known is taken for that of a clone.     *)
Signed(p) == signed[Arg(p)].count
NewCount(p) == IF Signed(p) > KnownCount(p) THEN Signed(p) ELSE KnownCount(p)

(* UpdatePasskeySignCount: a SELECT, then an UPDATE if the count is another. *)
CountCompares(p) ==
  /\ From(p, "compare")
  /\ Goto(p, IF passkeys[Uid(p)][signed[Arg(p)].cred] \in {None, NewCount(p)}
             THEN "session" ELSE "store")
  /\ UNCHANGED <<tables, memory, history>>

CountUpdates(p) ==
  /\ From(p, "store")
  /\ passkeys' = [passkeys EXCEPT ![Uid(p)][signed[Arg(p)].cred] =
                    IF @ = None THEN None ELSE NewCount(p)]
  /\ Goto(p, "session") /\ UNCHANGED <<users, tokens, memory, history>>

(* An error is logged and the login goes on.                                 *)
CountFails(p) ==
  /\ Fails /\ pc[p] \in {"compare", "store"} /\ From(p, pc[p])
  /\ Goto(p, "session") /\ UNCHANGED <<tables, memory, history>>

(* ByToken                                                                   *)
TokenLooksUp(p) ==
  /\ From(p, "token")
  /\ Goto(p, IF \E u \in Uids : tokens[u] = Arg(p) THEN "session" ELSE "idle")
  /\ UNCHANGED <<tables, memory, history>>

SetSession(p) ==
  /\ From(p, "session")
  /\ answered' = answered \cup (IF job[p].op = "assert" THEN {Arg(p)} ELSE {})
  /\ Done(p) /\ UNCHANGED <<tables, memory, enrolled, retired>>

-----------------------------------------------------------------------------
(* Any other error of the database, or the bound, ends the request.          *)
StoreFails(p) ==
  /\ \/ Fails /\ pc[p] \in {"delete", "drop", "create", "rotate", "finish",
                            "count", "replace", "verify", "token"}
     \/ pc[p] = "challenge" /\ begun = MaxChallenges
  /\ From(p, pc[p])
  /\ Done(p) /\ UNCHANGED <<tables, memory, history>>

(* openDB imports users.yml if it finds the table empty; that fails without  *)
(* anyone being told.                                                        *)
ImportDue == users = Nobody /\ Yaml # {}
ImportUsers ==
  /\ users' = Imported /\ tokens' = ImportedTokens
  /\ passkeys' = ImportedKeys /\ imports' = imports + 1
  /\ enrolled' = [u \in Uids |-> Held(ImportedKeys[u])]

(* A restart forgets the requests and the ceremonies.                        *)
Restart ==
  /\ crashes < MaxCrashes
  /\ crashes' = crashes + 1
  /\ pc' = [p \in Handlers |-> "idle"] /\ job' = [p \in Handlers |-> NoJob]
  /\ read' = [p \in Handlers |-> Nothing] /\ reg' = Nobody /\ logins' = {}
  /\ \/ ImportDue /\ ImportUsers
     \/ (Fails \/ ~ImportDue) /\ UNCHANGED <<tables, imports, enrolled>>
  /\ UNCHANGED <<begun, signed, served, retired, answered, calm>>

AdminStep(p) == \/ AdminCheck(p) \/ DeleteLooksUp(p) \/ DropUser(p)
                \/ CreateUser(p) \/ RotateLooksUp(p) \/ RotateToken(p)
                \/ RotateFails(p)
EnrolStep(p) == \/ RegisterBegin(p) \/ RegisterRefused(p) \/ FinishReads(p)
                \/ FinishVerifies(p) \/ FinishForgets(p) \/ CountsUser(p)
                \/ ReplacePasskeys(p) \/ RollsBack(p)
LoginStep(p) == \/ LoginBegin(p) \/ LoginLooksUp(p) \/ LoginVerifies(p)
                \/ LoginForgets(p) \/ CountCompares(p) \/ CountUpdates(p)
                \/ CountFails(p) \/ TokenLooksUp(p) \/ SetSession(p)
Step(p) == \/ BeginAdmin(p) \/ BeginEnrol(p) \/ BeginLogin(p) \/ BeginToken(p)
           \/ AdminStep(p) \/ EnrolStep(p) \/ LoginStep(p) \/ StoreFails(p)

Next == \/ Restart
        \/ \E p \in Handlers : Step(p)
        \/ \E n \in Challenges, u \in Uids, c \in Credentials : Sign(n, u, c)

Spec == Init /\ [][Next]_vars

-----------------------------------------------------------------------------
Labels == {"idle", "admin", "delete", "drop", "create", "rotate", "renew",
           "begin", "finish", "ceremony", "forget", "count", "replace",
           "challenge", "assert", "verify", "spend", "compare", "store",
           "token", "session"}
SignCounts == 0..MaxChallenges
Keys == [Credentials -> SignCounts \cup {None}]

Jobs == [op : AllOps \cup {None}, caller : Uids \cup {None},
         uid : Uids \cup {None}, arg : Challenges \cup Tokens \cup {None},
         fresh : BOOLEAN]
Assertions == [uid : Uids, cred : Credentials, count : SignCounts]

(* Every variable has its type.                                              *)
DataOK ==
  /\ users \in [Uids -> {"user", "admin", None}]
  /\ tokens \in [Uids -> Tokens \cup {None}]
  /\ passkeys \in [Uids -> Keys]
  /\ reg \in [Uids -> Challenges \cup {None}] /\ logins \subseteq Challenges
  /\ begun \in 0..MaxChallenges /\ imports \in 1..(MaxCrashes + 1)
  /\ signed \in [Challenges -> {None} \cup Assertions]
  /\ served \in 0..MaxServed /\ crashes \in 0..MaxCrashes
  /\ enrolled \in [Uids -> SUBSET Credentials]
  /\ retired \subseteq Tokens /\ answered \subseteq Challenges
  /\ calm \subseteq {"admin", "enrol", "login", "mixed"}
ControlOK ==
  pc \in [Handlers -> Labels] /\ job \in [Handlers -> Jobs] /\ read \in [Handlers -> Keys]
TypeOK == DataOK /\ ControlOK

(* No passkey outlives its user, though the row may go between the SELECT    *)
(* and the transaction of UpdatePasskeys (users.go:245-271).                 *)
PasskeysHaveUser == \A u \in Uids : users[u] = None => passkeys[u] = Nothing

(* A passkey that was reported as enrolled is in the table as long as its    *)
(* user, if enrolments do not overlap: whatever an admin or a login does     *)
(* meanwhile, and though the row may be deleted and made again between the   *)
(* handler's read and its write (auth_passkey.go:116-145).                   *)
EnrolledKept ==
  "enrol" \in calm => \A u \in Uids : enrolled[u] \subseteq Held(passkeys[u])

(* One admin request at a time never leaves the installation without an      *)
(* admin: nobody deletes the own account, and no enrolment or restart takes  *)
(* a role away (admin.go:187-195).                                           *)
AdminRemains ==
  "admin" \in calm /\ YamlAdmins # {} => \E u \in Uids : users[u] = "admin"

(* A challenge is answered with "ok" at most once, for an enrolment or a     *)
(* login, however often its answer is sent, if such requests do not overlap: *)
(* a ceremony that has ended is gone, across restarts too                    *)
(* (auth_passkey.go:122-137, 182-207).                                       *)
AnsweredOnce ==
  \A p \in Handlers :
    \/ "enrol" \in calm /\ pc[p] = "replace"
    \/ "login" \in calm /\ pc[p] = "session" /\ job[p].op = "assert"
    => Arg(p) \notin answered

(* The stored sign count of a passkey never goes back, though assertions may *)
(* arrive in another order than they were signed, as long as no two logins   *)
(* overlap, nor a login and an enrolment, which writes back the counts it    *)
(* read (auth_passkey.go:139, 202-209, users.go:285-320).                    *)
SignCountsAdvance ==
  [][{"login", "mixed"} \subseteq calm =>
       \A u \in Uids : \A c \in Held(passkeys[u]) :
         passkeys'[u][c] # None => passkeys'[u][c] >= passkeys[u][c]]_vars

(* A token that an admin was told is replaced, or whose user was deleted, is *)
(* never accepted from a request that comes later, unless users.yml was      *)
(* imported again (admin.go:167-184, users.go:199-220, 383-399).             *)
RetiredTokensStayDead ==
  imports = 1 => \A p \in Handlers :
    pc[p] = "session" /\ job[p].op = "token" => job[p].fresh
=============================================================================
