-------------------------- MODULE Therapist_proofs --------------------------
(***************************************************************************)
(* For any units, any values and any number of requests at once, whatever   *)
(* fails: Therapist is type correct, no edit is lost that was queued while  *)
(* no commit was under way and whose unit its script finds, and a page at   *)
(* rest shows what is in the game unless something failed.                  *)
(***************************************************************************)
EXTENDS Therapist, SequenceTheorems, TLAPS

USE DEF history

-----------------------------------------------------------------------------
(* Edits.                                                                    *)

LEMMA NoEditsType == NoEdits \in Edits /\ DOMAIN NoEdits = {}
<1>1. NoEdits \in Seq(Values) /\ Len(NoEdits) = 0
  BY EmptySeq DEF NoEdits
<1>2. NoEdits \in [1..0 -> Values] /\ 1..0 = {}
  BY <1>1, LenProperties
<1>3. NoEdits \in [{} -> Values]
  BY <1>2
<1> QED BY <1>3 DEF Edits

LEMMA EditsType ==
  ASSUME NEW e
  PROVE  e \in Edits <=> DOMAIN e \subseteq Fields /\ e \in [DOMAIN e -> Values]
<1>1. ASSUME NEW F \in SUBSET Fields, e \in [F -> Values]
      PROVE  DOMAIN e \subseteq Fields /\ e \in [DOMAIN e -> Values]
  BY <1>1
<1> QED BY <1>1 DEF Edits

(* An edit is added, or taken out.                                           *)
LEMMA WithType ==
  ASSUME NEW e \in Edits, NEW f \in Fields, NEW v \in Values
  PROVE  /\ With(e, f, v) \in Edits
         /\ DOMAIN With(e, f, v) = DOMAIN e \cup {f} /\ With(e, f, v)[f] = v
         /\ \A g \in DOMAIN e \ {f} : With(e, f, v)[g] = e[g]
<1>1. DOMAIN e \subseteq Fields /\ e \in [DOMAIN e -> Values]
  BY EditsType
<1>2. With(e, f, v) \in [DOMAIN e \cup {f} -> Values]
  BY <1>1 DEF With
<1>3. With(e, f, v) \in Edits
  BY <1>1, <1>2 DEF Edits
<1> QED BY <1>3 DEF With

LEMMA RestrictType ==
  ASSUME NEW e \in Edits, NEW F \in SUBSET (DOMAIN e)
  PROVE  /\ Restrict(e, F) \in Edits /\ DOMAIN Restrict(e, F) = F
         /\ \A g \in F : Restrict(e, F)[g] = e[g]
<1>1. DOMAIN e \subseteq Fields /\ e \in [DOMAIN e -> Values]
  BY EditsType
<1>2. Restrict(e, F) \in [F -> Values] /\ F \in SUBSET Fields
  BY <1>1 DEF Restrict
<1>3. Restrict(e, F) \in Edits
  BY <1>2 DEF Edits
<1> QED BY <1>3 DEF Restrict

-----------------------------------------------------------------------------
(* Types.                                                                    *)

LEMMA IdleType == Idle \in Call /\ AfterCommit \in Call
BY NoEditsType DEF Idle, AfterCommit, Sent, Call

LEMMA InitType == Init => TypeOK
<1> SUFFICES ASSUME Init PROVE TypeOK
  OBVIOUS
<1>1. value \in Edits
  BY DEF Init, Edits
<1> QED BY <1>1, NoEditsType, IdleType DEF Init, TypeOK

(* The page.                                                                 *)
LEMMA PageType ==
  ASSUME TypeOK, User \/ \E c \in Calls : Page(c)
  PROVE  TypeOK'
<1> USE DEF TypeOK, game
<1>0. ASSUME NEW c \in Calls, NEW call \in Call, Set(c, call)
      PROVE  calls' \in [Calls -> Call]
  BY <1>0 DEF Set
<1>1. ASSUME NEW f \in Fields, NEW v \in Values, Queue(f, v)
      PROVE  TypeOK'
  <2>1. With(pending, f, v) \in Edits
    BY WithType
  <2>2. Without(pending, f) \in Edits
    BY RestrictType DEF Without
  <2>3. unsure' \in BOOLEAN
    BY <1>1 DEF Queue
  <2> QED BY <1>1, <2>1, <2>2, <2>3 DEF Queue
<1>2. CASE ClearPending
  BY <1>2, NoEditsType DEF ClearPending
<1>3. ASSUME NEW c \in Calls, Commit(c) PROVE TypeOK'
  <2>1. Sent("commit", pending) \in Call
    BY DEF Sent, Call
  <2> QED BY <1>0, <1>3, <2>1 DEF Commit
<1>4. ASSUME NEW c \in Calls, Reload(c) PROVE TypeOK'
  <2>1. Sent("reload", NoEdits) \in Call /\ heard' \in BOOLEAN
    BY <1>4, NoEditsType DEF Sent, Call, Reload
  <2> QED BY <1>0, <1>4, <2>1 DEF Reload
<1>5. ASSUME NEW c \in Calls, Committed(c) PROVE TypeOK'
  <2>1. heard' \in BOOLEAN
    BY <1>5 DEF Committed
  <2> QED BY <1>0, <1>5, <2>1, IdleType, NoEditsType DEF Committed
<1>6. ASSUME NEW c \in Calls, Over(c) PROVE calls' \in [Calls -> Call]
  <2>1. [calls[c] EXCEPT !.at = "over"] \in Call
    BY DEF Call
  <2> QED BY <1>0, <1>6, <2>1, IdleType DEF Over
<1>7. ASSUME NEW c \in Calls, CommitFails(c) \/ FetchThrows(c) PROVE TypeOK'
  BY <1>6, <1>7 DEF CommitFails, FetchThrows, OnRefusal, Fault
<1>8. ASSUME NEW c \in Calls, Reloaded(c) PROVE TypeOK'
  <2>1. calls[c].edits \in Edits
    BY DEF Call
  <2> QED BY <1>0, <1>8, <2>1, IdleType DEF Reloaded
<1> QED BY <1>1, <1>2, <1>3, <1>4, <1>5, <1>7, <1>8 DEF User, Page

(* The handlers, their scripts and the game.                                 *)
LEMMA HandlerType ==
  ASSUME TypeOK, Game \/ \E c \in Calls : Handler(c)
  PROVE  TypeOK'
<1> USE DEF TypeOK, game
<1>1. ASSUME NEW c \in Calls, NEW call \in Call, Set(c, call)
      PROVE  calls' \in [Calls -> Call]
  BY <1>1 DEF Set
<1>2. ASSUME NEW c \in Calls, NEW ok \in BOOLEAN, AnswerWith(c, ok)
      PROVE  calls' \in [Calls -> Call]
  <2>1. [calls[c] EXCEPT !.at = "answered", !.ok = ok] \in Call
    BY DEF Call
  <2> QED BY <1>1, <1>2, <2>1 DEF AnswerWith
<1>3. ASSUME NEW c \in Calls, NEW e \in Edits, Ran(c, e)
      PROVE  calls' \in [Calls -> Call]
  <2>1. /\ [calls[c] EXCEPT !.at = "ran", !.runs = FALSE, !.edits = e] \in Call
        /\ [calls[c] EXCEPT !.runs = FALSE] \in Call
    BY DEF Call
  <2> QED BY <1>1, <1>3, <2>1, IdleType DEF Ran
<1>4. ASSUME NEW c \in Calls, NoSession(c) \/ Answer(c) \/ ExecFails(c)
      PROVE  TypeOK'
  BY <1>2, <1>4 DEF NoSession, Answer, ExecFails, Fault
<1>5. ASSUME NEW c \in Calls, Exec(c) PROVE TypeOK'
  <2>1. [calls[c] EXCEPT !.at = "runs", !.runs = TRUE] \in Call
    BY DEF Call
  <2> QED BY <1>1, <1>5, <2>1 DEF Exec
<1>6. ASSUME NEW c \in Calls, ApplyEdits(c) PROVE TypeOK'
  <2>1. calls[c].edits \in Edits
    BY DEF Call
  <2>2. \A f \in DOMAIN calls[c].edits : calls[c].edits[f] \in Values
    BY <2>1, EditsType
  <2>3. value' \in [Fields -> Values] /\ missed' \in SUBSET Fields
    <3>1. DOMAIN calls[c].edits \subseteq Fields
      BY <2>1, EditsType
    <3> QED BY <1>6, <2>2, <3>1 DEF ApplyEdits
  <2> QED BY <1>3, <1>6, <2>3, NoEditsType DEF ApplyEdits
<1>7. ASSUME NEW c \in Calls, ListUnits(c) PROVE TypeOK'
  <2>1. value \in Edits /\ DOMAIN value = Fields
    BY DEF Edits
  <2>2. Restrict(value, Fields \ gone) \in Edits
    BY <2>1, RestrictType
  <2> QED BY <1>3, <1>7, <2>2 DEF ListUnits
<1>8. ASSUME NEW c \in Calls, ListsFewer(c) PROVE TypeOK'
  <2>1. value \in Edits /\ DOMAIN value = Fields
    BY DEF Edits
  <2>2. PICK F \in SUBSET (Fields \ gone) : Ran(c, Restrict(value, F))
    BY <1>8 DEF ListsFewer
  <2>3. Restrict(value, F) \in Edits
    BY <2>1, RestrictType
  <2> QED BY <1>3, <1>8, <2>2, <2>3 DEF ListsFewer, Fault
<1>9. CASE Game
  BY <1>9 DEF Game, UnitGoes, UnitReturns, GameRenames
<1> QED BY <1>4, <1>5, <1>6, <1>7, <1>8, <1>9 DEF Handler

(* Every step keeps the types.                                               *)
LEMMA TypeStep == TypeOK /\ [Next]_vars => TypeOK'
<1>1. TypeOK /\ UNCHANGED vars => TypeOK'
  BY DEF TypeOK, vars, game
<1> QED BY <1>1, PageType, HandlerType DEF Next

-----------------------------------------------------------------------------
(* The inductive invariant.                                                  *)

(* A script that may still run belongs to a request that has no answer yet,  *)
(* has an error for one, or that nobody waits for.                           *)
MayRun(call) ==
  call.runs => call.at \in {"runs", "over"} \/ (call.at = "answered" /\ ~call.ok)
Flow == \A c \in Calls : MayRun(calls[c])

(* Edits on their way, and edits that arrived.                               *)
OnTheWay(call) == call.kind = "commit" /\ (call.at = "sent" \/ call.runs)
Arrived(call) ==
  call.kind = "commit" /\ (call.at = "ran" \/ (call.at = "answered" /\ call.ok))

Wished(f, v) == wish[f] # None => v = wish[f]

(* What is queued or sent is what the user last chose; a queue that may be   *)
(* cleared holds nothing the game lacks.                                     *)
QueuedAsWished == \A f \in DOMAIN pending : Wished(f, pending[f])
SentAsWished(call) ==
  /\ DOMAIN pending \subseteq DOMAIN call.edits
  /\ \A f \in DOMAIN call.edits : Wished(f, call.edits[f])
AllInGame == \A f \in Fields \ missed : Wished(f, value[f])

Kept ==
  ~unsure => /\ QueuedAsWished
             /\ \A c \in Calls : OnTheWay(calls[c]) => SentAsWished(calls[c])
             /\ \A c \in Calls : Arrived(calls[c]) => AllInGame

(* While nothing failed, a page that does not show the game will load it.    *)
Reloading(c, at) == calls[c].kind = "reload" /\ calls[c].at \in at
ReloadComes ==
  \/ \E c \in Calls : calls[c].kind = "commit" /\ calls[c].at \in {"ran", "answered"}
  \/ \E c \in Calls : Reloading(c, {"sent", "runs"})
  \/ \E c \in Calls : Reloading(c, {"ran", "answered"}) /\ calls[c].edits = value
  \/ ~InFlight("reload") /\ units = value

OneReload ==
  \A c, d \in Calls : calls[c].kind = "reload" /\ calls[d].kind = "reload" => c = d
NoFault ==
  /\ gone = {}
  /\ \A c \in Calls : /\ calls[c].at # "over"
                      /\ calls[c].at = "answered" => calls[c].ok

Truth == heard => NoFault /\ OneReload /\ ReloadComes

-----------------------------------------------------------------------------
(* One request changes at a time.                                            *)
LEMMA SetCall ==
  ASSUME TypeOK, NEW c \in Calls, NEW call, Set(c, call), NEW d \in Calls
  PROVE  calls'[d] = IF d = c THEN call ELSE calls[d]
BY DEF Set, TypeOK

LEMMA IdleRuns ==
  /\ ~Idle.runs /\ Idle.kind = "idle" /\ Idle.at = "idle"
  /\ ~AfterCommit.runs /\ AfterCommit.kind = "reload" /\ AfterCommit.at = "sent"
BY DEF Idle, AfterCommit, Sent

LEMMA FlowStep == TypeOK /\ Flow /\ [Next]_vars => Flow'
<1> SUFFICES ASSUME TypeOK, Flow, [Next]_vars PROVE Flow'
  OBVIOUS
<1>0. CASE UNCHANGED calls
  BY <1>0 DEF Flow
<1>1. ASSUME NEW c \in Calls, NEW call, MayRun(call), Set(c, call)
      PROVE  Flow'
  <2>1. \A d \in Calls : MayRun(calls'[d])
    BY <1>1, SetCall DEF Flow
  <2> QED BY <2>1 DEF Flow
<1>2. MayRun(Idle) /\ MayRun(AfterCommit)
  BY IdleRuns DEF MayRun
<1>3. ASSUME NEW c \in Calls, Commit(c) \/ Reload(c) PROVE Flow'
  <2>1. MayRun(Sent("commit", pending)) /\ MayRun(Sent("reload", NoEdits))
    BY DEF MayRun, Sent
  <2> QED BY <1>1, <1>3, <2>1 DEF Commit, Reload
<1>4. ASSUME NEW c \in Calls, Over(c) PROVE Flow'
  <2>1. MayRun([calls[c] EXCEPT !.at = "over"])
    BY DEF MayRun, TypeOK, Call
  <2> QED BY <1>1, <1>2, <1>4, <2>1 DEF Over
<1>5. ASSUME NEW c \in Calls, Page(c) PROVE Flow'
  BY <1>1, <1>2, <1>4, <1>5
     DEF Page, Committed, CommitFails, Reloaded, FetchThrows
<1>6. ASSUME NEW c \in Calls, NEW ok \in BOOLEAN, AnswerWith(c, ok),
             calls[c].runs => ~ok
      PROVE  Flow'
  <2>1. MayRun([calls[c] EXCEPT !.at = "answered", !.ok = ok])
    BY <1>6 DEF MayRun, TypeOK, Call
  <2> QED BY <1>1, <1>6, <2>1 DEF AnswerWith
<1>7. ASSUME NEW c \in Calls, NoSession(c) \/ Answer(c) \/ ExecFails(c)
      PROVE  Flow'
  BY <1>6, <1>7 DEF NoSession, Answer, ExecFails, Flow, MayRun
<1>8. ASSUME NEW c \in Calls, Exec(c) PROVE Flow'
  <2>1. MayRun([calls[c] EXCEPT !.at = "runs", !.runs = TRUE])
    BY DEF MayRun, TypeOK, Call
  <2> QED BY <1>1, <1>8, <2>1 DEF Exec
<1>9. ASSUME NEW c \in Calls, NEW e, Ran(c, e) PROVE Flow'
  <2>1. /\ MayRun([calls[c] EXCEPT !.at = "ran", !.runs = FALSE, !.edits = e])
        /\ MayRun([calls[c] EXCEPT !.runs = FALSE])
    BY DEF MayRun, TypeOK, Call
  <2> QED BY <1>1, <1>2, <1>9, <2>1 DEF Ran
<1>10. ASSUME NEW c \in Calls, Handler(c) PROVE Flow'
  BY <1>7, <1>8, <1>9, <1>10 DEF Handler, ApplyEdits, ListUnits, ListsFewer
<1>11. CASE Game
  BY <1>0, <1>11 DEF Game, UnitGoes, UnitReturns, GameRenames
<1>12. CASE User
  BY <1>0, <1>3, <1>12 DEF User, Queue, ClearPending
<1> QED BY <1>0, <1>5, <1>10, <1>11, <1>12 DEF Next, vars

-----------------------------------------------------------------------------
(* What the user chose is queued, on its way or in the game.                 *)

(* A request moves on and nothing else changes.                              *)
LEMMA CallMoves ==
  ASSUME TypeOK, Kept, EditsAreKept, ~unsure, NEW c \in Calls, NEW call,
         Set(c, call), UNCHANGED <<game, pending, wish, unsure, missed>>,
         OnTheWay(call) => SentAsWished(call), Arrived(call) => AllInGame
  PROVE  Kept' /\ EditsAreKept'
<1>1. \A d \in Calls : calls'[d] = IF d = c THEN call ELSE calls[d]
  BY SetCall
<1>2. /\ \A d \in Calls : OnTheWay(calls'[d]) => SentAsWished(calls'[d])
      /\ \A d \in Calls : Arrived(calls'[d]) => AllInGame
  BY <1>1 DEF Kept
<1>3. Kept'
  <2>1. AllInGame' = AllInGame /\ QueuedAsWished' = QueuedAsWished
    BY DEF AllInGame, QueuedAsWished, Wished, game
  <2>2. \A d \in Calls : OnTheWay(calls'[d]) => SentAsWished(calls[d])'
    BY <1>2 DEF SentAsWished, Wished
  <2> QED BY <1>2, <2>1, <2>2 DEF Kept, OnTheWay, Arrived
<1> QED BY <1>3 DEF EditsAreKept, game

(* Requests other than one that applies its edits.                           *)
LEMMA CallKept ==
  ASSUME TypeOK, Flow, Kept, EditsAreKept, ~unsure, NEW c \in Calls,
         \/ Commit(c) \/ Reload(c) \/ CommitFails(c) \/ Reloaded(c)
         \/ FetchThrows(c) \/ NoSession(c) \/ Exec(c) \/ ListUnits(c)
         \/ ListsFewer(c) \/ Answer(c) \/ ExecFails(c)
  PROVE  Kept' /\ EditsAreKept'
<1> DEFINE Fit(call) == /\ OnTheWay(call) => SentAsWished(call)
                        /\ Arrived(call) => AllInGame
           Rest == UNCHANGED <<game, pending, wish, unsure, missed>>
<1>0. ASSUME NEW call, Fit(call), Set(c, call), Rest
      PROVE  Kept' /\ EditsAreKept'
  BY <1>0, CallMoves
<1>a. Fit(calls[c]) /\ calls[c] \in Call
  BY DEF Kept, TypeOK
<1>b. Fit(Idle)
  BY IdleRuns DEF OnTheWay, Arrived
<1> HIDE DEF Fit, Rest
<1>1. CASE Commit(c)
  <2>1. SentAsWished(Sent("commit", pending))
    BY DEF Kept, Sent, SentAsWished, QueuedAsWished
  <2>2. Fit(Sent("commit", pending))
    BY <2>1 DEF Fit, Sent, Arrived
  <2> QED BY <1>0, <1>1, <2>2 DEF Commit, Rest
<1>2. CASE Reload(c)
  <2>1. Fit(Sent("reload", NoEdits))
    BY DEF Fit, Sent, OnTheWay, Arrived
  <2> QED BY <1>0, <1>2, <2>1 DEF Reload, Rest
<1>3. CASE Over(c) /\ Rest
  <2>1. ASSUME calls[c].runs PROVE Fit([calls[c] EXCEPT !.at = "over"])
    <3>1. OnTheWay([calls[c] EXCEPT !.at = "over"]) => SentAsWished(calls[c])
      BY <1>a, <2>1 DEF Fit, OnTheWay, Call
    <3>2. [calls[c] EXCEPT !.at = "over"].edits = calls[c].edits
      BY <1>a DEF Call
    <3>3. ~Arrived([calls[c] EXCEPT !.at = "over"])
      BY <1>a DEF Arrived, Call
    <3> QED BY <3>1, <3>2, <3>3 DEF Fit, SentAsWished
  <2> QED BY <1>0, <1>3, <1>b, <2>1 DEF Over
<1>4. CASE CommitFails(c) \/ Reloaded(c) \/ FetchThrows(c)
  BY <1>0, <1>3, <1>4, <1>b
     DEF CommitFails, Reloaded, FetchThrows, OnRefusal, Rest
<1>5. ASSUME NEW ok \in BOOLEAN, AnswerWith(c, ok), ok => calls[c].at = "ran", Rest
      PROVE  Kept' /\ EditsAreKept'
  <2> DEFINE call == [calls[c] EXCEPT !.at = "answered", !.ok = ok]
  <2>1. /\ call.kind = calls[c].kind /\ call.edits = calls[c].edits
        /\ call.runs = calls[c].runs /\ call.at = "answered" /\ call.ok = ok
    BY <1>a DEF Call
  <2>2. Set(c, call)
    BY <1>5 DEF AnswerWith
  <2> HIDE DEF call
  <2>3. Fit(call)
    BY <1>5, <1>a, <2>1 DEF Fit, OnTheWay, Arrived, SentAsWished
  <2> QED BY <1>0, <1>5, <2>2, <2>3
<1>6. CASE NoSession(c) \/ Answer(c) \/ ExecFails(c)
  BY <1>5, <1>6 DEF NoSession, Answer, ExecFails, Rest
<1>7. CASE Exec(c)
  <2> DEFINE call == [calls[c] EXCEPT !.at = "runs", !.runs = TRUE]
  <2>1. /\ call.kind = calls[c].kind /\ call.edits = calls[c].edits
        /\ call.at = "runs" /\ calls[c].at = "sent"
    BY <1>7, <1>a DEF Call, Exec
  <2>2. Set(c, call) /\ Rest
    BY <1>7 DEF Exec, Rest
  <2> HIDE DEF call
  <2>3. Fit(call)
    BY <1>a, <2>1 DEF Fit, OnTheWay, Arrived, SentAsWished
  <2> QED BY <1>0, <2>2, <2>3
<1>8. CASE ListUnits(c) \/ ListsFewer(c)
  <2>1. /\ Fit([calls[c] EXCEPT !.runs = FALSE])
        /\ \A e : Fit([calls[c] EXCEPT !.at = "ran", !.runs = FALSE, !.edits = e])
    BY <1>8, <1>a DEF ListUnits, ListsFewer, Fit, OnTheWay, Arrived, Call
  <2>2. Rest
    BY <1>8 DEF ListUnits, ListsFewer, Rest
  <2> QED BY <1>0, <1>8, <1>b, <2>1, <2>2 DEF ListUnits, ListsFewer, Ran
<1> QED BY <1>1, <1>2, <1>4, <1>6, <1>7, <1>8

(* A queue is cleared because its edits are in the game.                     *)
LEMMA CommittedKept ==
  ASSUME TypeOK, Kept, EditsAreKept, NEW c \in Calls, Committed(c), ~unsure
  PROVE  Kept' /\ EditsAreKept'
<1>1. AllInGame
  BY DEF Kept, Committed, Arrived
<1>2. AllInGame' /\ QueuedAsWished'
  BY <1>1, NoEditsType DEF Committed, AllInGame, QueuedAsWished, Wished, game
<1>3. ASSUME NEW d \in Calls, OnTheWay(calls'[d])
      PROVE  SentAsWished(calls[d])'
  <2>1. IF d = c THEN calls'[d].kind = "reload" ELSE calls'[d] = calls[d]
    BY SetCall, IdleRuns DEF Committed
  <2>2. d # c /\ calls'[d] = calls[d]
    BY <1>3, <2>1 DEF OnTheWay
  <2>3. SentAsWished(calls[d])
    BY <1>3, <2>2 DEF Kept
  <2> QED BY <2>2, <2>3, NoEditsType DEF SentAsWished, Wished, Committed
<1>4. Kept'
  BY <1>2, <1>3 DEF Kept, OnTheWay
<1> QED BY <1>2, <1>4 DEF EditsAreKept, AllInGame, Wished

(* A script gives the fields of its edits what the user chose.               *)
LEMMA AppliedKept ==
  ASSUME TypeOK, Flow, Kept, EditsAreKept, NEW c \in Calls, ApplyEdits(c), ~unsure
  PROVE  Kept' /\ EditsAreKept'
<1>1. SentAsWished(calls[c])
  BY DEF ApplyEdits, Kept, OnTheWay
<1>2. AllInGame'
  <2> SUFFICES ASSUME NEW f \in Fields \ missed', wish[f] # None
               PROVE  value'[f] = wish[f]
    BY DEF AllInGame, Wished, ApplyEdits
  <2>0. f \notin missed /\ (f \in DOMAIN calls[c].edits => value'[f] = calls[c].edits[f])
    BY DEF ApplyEdits
  <2>1. value'[f] = IF f \in DOMAIN calls[c].edits THEN calls[c].edits[f] ELSE value[f]
    BY <2>0 DEF ApplyEdits
  <2>2. CASE f \in DOMAIN calls[c].edits
    BY <1>1, <2>1, <2>2 DEF SentAsWished, Wished
  <2>3. CASE f \notin DOMAIN calls[c].edits
    BY <1>1, <2>0, <2>1, <2>3 DEF SentAsWished, EditsAreKept
  <2> QED BY <2>2, <2>3
<1>3. QueuedAsWished'
  BY DEF Kept, QueuedAsWished, Wished, ApplyEdits
<1>4. ASSUME NEW d \in Calls, OnTheWay(calls'[d])
      PROVE  SentAsWished(calls[d])'
  <2>1. calls[c] \in Call /\ Ran(c, NoEdits)
    BY DEF TypeOK, ApplyEdits
  <2>2. d # c /\ calls'[d] = calls[d]
    <3>1. CASE calls[c].at = "over"
      BY <1>4, <2>1, <3>1, SetCall, IdleRuns DEF Ran, OnTheWay
    <3>2. CASE calls[c].at = "runs"
      <4> DEFINE ran == [calls[c] EXCEPT !.at = "ran", !.runs = FALSE,
                                         !.edits = NoEdits]
      <4>1. ~ran.runs /\ ran.at = "ran"
        BY <2>1 DEF Call
      <4>2. Set(c, ran)
        BY <2>1, <3>2 DEF Ran
      <4> HIDE DEF ran
      <4> QED BY <1>4, <4>1, <4>2, SetCall DEF OnTheWay
    <3>3. CASE calls[c].at \notin {"over", "runs"}
      <4> DEFINE ran == [calls[c] EXCEPT !.runs = FALSE]
      <4>1. ~ran.runs /\ ran.at = calls[c].at
        BY <2>1 DEF Call
      <4>2. Set(c, ran)
        BY <2>1, <3>3 DEF Ran
      <4>3. calls[c].at = "answered"
        BY <3>3 DEF ApplyEdits, Flow, MayRun
      <4> HIDE DEF ran
      <4> QED BY <1>4, <4>1, <4>2, <4>3, SetCall DEF OnTheWay
    <3> QED BY <3>1, <3>2, <3>3
  <2>3. SentAsWished(calls[d])
    BY <1>4, <2>2 DEF Kept
  <2> QED BY <2>2, <2>3 DEF SentAsWished, Wished, ApplyEdits
<1>5. Kept'
  BY <1>2, <1>3, <1>4 DEF Kept, OnTheWay
<1> QED BY <1>2, <1>5 DEF EditsAreKept, AllInGame, Wished

(* The user queues and clears edits, and the game is played.                 *)
LEMMA ChosenKept ==
  ASSUME TypeOK, Kept, EditsAreKept,
         ~unsure', ClearPending \/ Game \/ \E f \in Fields, v \in Values : Queue(f, v)
  PROVE  Kept' /\ EditsAreKept'
<1>1. CASE ClearPending
  <2>1. /\ \A f \in Fields : wish'[f] = None
        /\ \A c \in Calls : DOMAIN pending' \subseteq DOMAIN calls[c].edits
    BY <1>1, NoEditsType DEF ClearPending
  <2>2. \A c \in Calls : DOMAIN calls[c].edits \subseteq Fields
    BY EditsType DEF TypeOK, Call
  <2>3. QueuedAsWished' /\ AllInGame' /\ \A c \in Calls : SentAsWished(calls[c])'
    BY <1>1, <2>1, <2>2, NoEditsType
       DEF QueuedAsWished, AllInGame, SentAsWished, Wished, ClearPending
  <2> QED BY <2>1, <2>3 DEF Kept, EditsAreKept
<1>2. CASE Game
  <2>1. /\ UNCHANGED <<calls, pending, unsure, missed>>
        /\ \A f \in Fields : wish'[f] # None => wish'[f] = wish[f] /\ value'[f] = value[f]
    BY <1>2 DEF Game, UnitGoes, UnitReturns, GameRenames, TypeOK
  <2>2. DOMAIN pending \subseteq Fields
        /\ \A c \in Calls : DOMAIN calls[c].edits \subseteq Fields
    BY EditsType DEF TypeOK, Call
  <2>3. QueuedAsWished => QueuedAsWished'
    BY <2>1, <2>2 DEF QueuedAsWished, Wished
  <2>4. AllInGame => AllInGame'
    BY <2>1 DEF AllInGame, Wished
  <2>5. \A c \in Calls : SentAsWished(calls[c]) => SentAsWished(calls[c])'
    BY <2>1, <2>2 DEF SentAsWished, Wished
  <2>6. Kept'
    BY <2>1, <2>3, <2>4, <2>5 DEF Kept, OnTheWay, Arrived
  <2> QED BY <2>1, <2>6 DEF EditsAreKept
<1>3. ASSUME NEW f \in Fields, NEW v \in Values, Queue(f, v)
      PROVE  Kept' /\ EditsAreKept'
  <2>1. /\ ~unsure /\ ~InFlight("commit") /\ units[f] = value[f]
        /\ calls' = calls /\ value' = value /\ missed' = missed \ {f}
        /\ wish' = [wish EXCEPT ![f] = v]
    BY <1>3 DEF Queue, Shows, TypeOK, game
  <2>2. QueuedAsWished /\ \A c \in Calls : calls[c].kind # "commit"
    BY <2>1 DEF Kept, InFlight
  <2>3. QueuedAsWished' /\ \A g \in Fields \ missed' : wish'[g] # None =>
          (g \in DOMAIN pending' /\ pending'[g] = wish'[g]) \/ value[g] = wish'[g]
    <3>0. wish'[f] = v /\ \A g \in Fields \ {f} : wish'[g] = wish[g]
      BY <2>1 DEF TypeOK
    <3>1. CASE f \in DOMAIN pending /\ Shows(f, v)
      <4>1. /\ DOMAIN pending' = DOMAIN pending \ {f}
            /\ \A g \in DOMAIN pending \ {f} : pending'[g] = pending[g]
        BY <1>3, <3>1, RestrictType DEF Queue, Without, TypeOK
      <4>2. DOMAIN pending \subseteq Fields
        BY EditsType DEF TypeOK
      <4>3. QueuedAsWished'
        BY <2>2, <3>0, <4>1, <4>2 DEF QueuedAsWished, Wished
      <4>4. \A g \in (Fields \ missed) \ {f} : wish'[g] # None =>
              (g \in DOMAIN pending' /\ pending'[g] = wish'[g]) \/ value[g] = wish'[g]
        BY <2>1, <3>0, <4>1 DEF EditsAreKept
      <4> QED BY <2>1, <3>0, <3>1, <4>3, <4>4 DEF Shows
    <3>2. CASE ~(f \in DOMAIN pending /\ Shows(f, v))
      <4> DEFINE q == With(pending, f, v)
      <4>0. pending' = q /\ pending \in Edits
        BY <1>3, <3>2 DEF Queue, TypeOK
      <4>q. /\ DOMAIN q = DOMAIN pending \cup {f} /\ q[f] = v
            /\ \A g \in DOMAIN pending \ {f} : q[g] = pending[g]
        BY ZenonT(30), <4>0, WithType
      <4> HIDE DEF q
      <4>1. /\ DOMAIN pending' = DOMAIN pending \cup {f} /\ pending'[f] = v
            /\ \A g \in DOMAIN pending \ {f} : pending'[g] = pending[g]
        BY <4>0, <4>q
      <4>2. DOMAIN pending \subseteq Fields
        BY EditsType DEF TypeOK
      <4>3. QueuedAsWished'
        BY <2>2, <3>0, <4>1, <4>2 DEF QueuedAsWished, Wished
      <4>4. \A g \in (Fields \ missed) \ {f} : wish'[g] # None =>
              (g \in DOMAIN pending' /\ pending'[g] = wish'[g]) \/ value[g] = wish'[g]
        BY <2>1, <3>0, <4>1 DEF EditsAreKept
      <4> QED BY <2>1, <3>0, <4>1, <4>3, <4>4
    <3> QED BY <3>1, <3>2
  <2> QED BY <2>1, <2>2, <2>3 DEF Kept, EditsAreKept, OnTheWay, Arrived
<1> QED BY <1>1, <1>2, <1>3

(* Every step keeps what the user chose.                                     *)
LEMMA KeptStep ==
  TypeOK /\ Flow /\ Kept /\ EditsAreKept /\ [Next]_vars => Kept' /\ EditsAreKept'
<1> SUFFICES ASSUME TypeOK, Flow, Kept, EditsAreKept, [Next]_vars
             PROVE  Kept' /\ EditsAreKept'
  OBVIOUS
<1>1. CASE unsure'
  BY <1>1 DEF Kept, EditsAreKept
<1>2. CASE UNCHANGED vars
  <2>1. AllInGame' = AllInGame /\ QueuedAsWished' = QueuedAsWished
    BY <1>2 DEF AllInGame, QueuedAsWished, Wished, vars
  <2>2. \A c \in Calls : SentAsWished(calls[c])' = SentAsWished(calls[c])
    BY <1>2 DEF SentAsWished, Wished, vars
  <2> QED BY <1>2, <2>1, <2>2 DEF Kept, EditsAreKept, OnTheWay, Arrived, vars
<1>3. ASSUME ~unsure', Next PROVE Kept' /\ EditsAreKept'
  <2>1. CASE ClearPending \/ Game \/ \E f \in Fields, v \in Values : Queue(f, v)
    BY <1>3, <2>1, ChosenKept
  <2>2. ASSUME NEW c \in Calls, Commit(c) \/ Reload(c) \/ Page(c) \/ Handler(c)
        PROVE  Kept' /\ EditsAreKept'
    <3>1. ~unsure
      BY <1>3, <2>2 DEF Commit, Reload, Page, Committed, CommitFails, Reloaded,
           FetchThrows, Handler, NoSession, Exec, ApplyEdits, ListUnits,
           ListsFewer, Answer, ExecFails
    <3> QED BY <2>2, <3>1, CallKept, CommittedKept, AppliedKept DEF Page, Handler
  <2> QED BY <1>3, <2>1, <2>2 DEF Next, User
<1> QED BY <1>1, <1>2, <1>3

-----------------------------------------------------------------------------
(* The page shows the game.                                                  *)

(* A request moves on without an error, and no second load begins.           *)
LEMMA NoFaultMoves ==
  ASSUME TypeOK, NoFault, OneReload, gone' = gone,
         NEW c \in Calls, NEW call, Set(c, call),
         call.at # "over", call.at = "answered" => call.ok,
         call.kind = "reload" => calls[c].kind = "reload" \/ ~InFlight("reload")
  PROVE  NoFault' /\ OneReload'
<1>1. \A d \in Calls : calls'[d] = IF d = c THEN call ELSE calls[d]
  BY SetCall
<1>2. \A d \in Calls : calls'[d].at # "over" /\ (calls'[d].at = "answered" => calls'[d].ok)
  BY <1>1 DEF NoFault
<1>3. \A d, e \in Calls :
        calls'[d].kind = "reload" /\ calls'[e].kind = "reload" => d = e
  BY <1>1 DEF OneReload, InFlight
<1> QED BY <1>2, <1>3 DEF NoFault, OneReload

LEMMA TruthCall ==
  ASSUME TypeOK, Flow, heard, NoFault, OneReload, ReloadComes, heard',
         NEW c \in Calls, Commit(c) \/ Reload(c) \/ Page(c) \/ Handler(c)
  PROVE  NoFault' /\ OneReload' /\ ReloadComes'
<1>0. calls[c] \in Call /\ value \in [Fields -> Values]
  BY DEF TypeOK
<1>1. CASE Commit(c)
  <2> DEFINE call == Sent("commit", pending)
  <2>1. Set(c, call) /\ calls[c].kind = "idle" /\ UNCHANGED <<value, gone, units>>
    BY <1>1, IdleRuns DEF Commit, game
  <2>2. call.kind = "commit" /\ call.at = "sent"
    BY DEF Sent
  <2> HIDE DEF call
  <2>3. NoFault' /\ OneReload'
    BY <2>1, <2>2, NoFaultMoves
  <2>4. ReloadComes'
    BY <2>1, <2>2, SetCall DEF ReloadComes, Reloading, InFlight
  <2> QED BY <2>3, <2>4
<1>2. CASE Reload(c)
  <2> DEFINE call == Sent("reload", NoEdits)
  <2>1. /\ Set(c, call) /\ ~InFlight("reload") /\ UNCHANGED <<value, gone, units>>
    BY <1>2 DEF Reload, game
  <2>2. call.kind = "reload" /\ call.at = "sent"
    BY DEF Sent
  <2> HIDE DEF call
  <2>3. NoFault' /\ OneReload'
    BY <2>1, <2>2, NoFaultMoves
  <2>4. ReloadComes'
    BY <2>1, <2>2, SetCall DEF ReloadComes, Reloading
  <2> QED BY <2>3, <2>4
<1>3. CASE Committed(c)
  <2>1. /\ Set(c, AfterCommit) /\ ~InFlight("reload") /\ UNCHANGED <<value, gone, units>>
    BY <1>3 DEF Committed, game
  <2>2. NoFault' /\ OneReload'
    BY <2>1, IdleRuns, NoFaultMoves
  <2>3. ReloadComes'
    BY <2>1, IdleRuns, SetCall DEF ReloadComes, Reloading
  <2> QED BY <2>2, <2>3
<1>4. CASE Reloaded(c)
  <2>1. /\ Set(c, Idle) /\ UNCHANGED <<value, gone>> /\ units' = calls[c].edits
        /\ calls[c].kind = "reload" /\ calls[c].at = "answered"
    BY <1>4 DEF Reloaded, game, NoFault
  <2>2. NoFault' /\ OneReload'
    BY <2>1, IdleRuns, NoFaultMoves
  <2>3. \A d \in Calls \ {c} : calls[d].kind # "reload" /\ calls'[d] = calls[d]
    BY <2>1, SetCall DEF OneReload
  <2>4. calls'[c].kind = "idle"
    BY <2>1, SetCall, IdleRuns
  <2>5. ~InFlight("reload")'
    BY <2>3, <2>4 DEF InFlight
  <2>6. \/ \E d \in Calls \ {c} : calls[d].kind = "commit" /\ calls[d].at \in {"ran", "answered"}
        \/ calls[c].edits = value
    BY <2>1, <2>3 DEF ReloadComes, Reloading, InFlight
  <2>7. ReloadComes'
    BY <2>1, <2>3, <2>5, <2>6 DEF ReloadComes
  <2> QED BY <2>2, <2>7
<1>5. CASE \/ CommitFails(c) \/ FetchThrows(c) \/ NoSession(c) \/ ExecFails(c)
          \/ ListsFewer(c)
  BY <1>5 DEF CommitFails, FetchThrows, NoSession, ExecFails, ListsFewer, NoFault, Fault
<1>6. CASE Exec(c)
  <2> DEFINE call == [calls[c] EXCEPT !.at = "runs", !.runs = TRUE]
  <2>1. /\ Set(c, call) /\ UNCHANGED <<value, gone, units>> /\ calls[c].at = "sent"
    BY <1>6 DEF Exec, game
  <2>2. call.kind = calls[c].kind /\ call.at = "runs"
    BY <1>0 DEF Call
  <2> HIDE DEF call
  <2>3. NoFault' /\ OneReload'
    BY <2>1, <2>2, NoFaultMoves
  <2>4. ReloadComes'
    BY <2>1, <2>2, SetCall DEF ReloadComes, Reloading, InFlight
  <2> QED BY <2>3, <2>4
<1>7. CASE Answer(c)
  <2> DEFINE call == [calls[c] EXCEPT !.at = "answered", !.ok = TRUE]
  <2>1. /\ Set(c, call) /\ UNCHANGED <<value, gone, units>> /\ calls[c].at = "ran"
    BY <1>7 DEF Answer, AnswerWith, game
  <2>2. /\ call.kind = calls[c].kind /\ call.at = "answered" /\ call.ok
        /\ call.edits = calls[c].edits
    BY <1>0 DEF Call
  <2> HIDE DEF call
  <2>3. NoFault' /\ OneReload'
    BY <2>1, <2>2, NoFaultMoves
  <2>4. ReloadComes'
    BY <2>1, <2>2, SetCall DEF ReloadComes, Reloading, InFlight
  <2> QED BY <2>3, <2>4
<1>8. ASSUME NEW e, Ran(c, e), calls[c].runs, UNCHANGED <<gone, units>>,
             \/ calls[c].kind = "commit"
             \/ calls[c].kind = "reload" /\ e = value /\ value' = value
      PROVE  NoFault' /\ OneReload' /\ ReloadComes'
  <2> DEFINE call == [calls[c] EXCEPT !.at = "ran", !.runs = FALSE, !.edits = e]
  <2>1. calls[c].at = "runs"
    BY <1>8 DEF Flow, MayRun, NoFault
  <2>2. Set(c, call)
    BY <1>8, <2>1 DEF Ran
  <2>3. call.kind = calls[c].kind /\ call.at = "ran" /\ call.edits = e
    BY <1>0 DEF Call
  <2> HIDE DEF call
  <2>4. NoFault' /\ OneReload'
    BY <1>8, <2>2, <2>3, NoFaultMoves
  <2>5. calls'[c] = call
    BY <2>2, SetCall
  <2>6. ReloadComes'
    BY <1>8, <2>3, <2>5 DEF ReloadComes, Reloading
  <2> QED BY <2>4, <2>6
<1>9. CASE ApplyEdits(c)
  BY <1>8, <1>9 DEF ApplyEdits
<1>10. CASE ListUnits(c)
  <2>1. Restrict(value, Fields \ gone) = value
    BY <1>0 DEF Restrict, NoFault
  <2> QED BY <1>8, <1>10, <2>1 DEF ListUnits, game
<1> QED BY <1>1, <1>2, <1>3, <1>4, <1>5, <1>6, <1>7, <1>9, <1>10 DEF Page, Handler

(* Every step keeps the page true.                                           *)
LEMMA TruthStep == TypeOK /\ Flow /\ Truth /\ [Next]_vars => Truth'
<1> SUFFICES ASSUME TypeOK, Flow, Truth, [Next]_vars, heard'
             PROVE  NoFault' /\ OneReload' /\ ReloadComes'
  BY DEF Truth
<1>1. ASSUME UNCHANGED <<value, gone, units, calls, heard>>
      PROVE  NoFault' /\ OneReload' /\ ReloadComes'
  <2>1. NoFault /\ OneReload /\ ReloadComes
    BY <1>1 DEF Truth
  <2> QED BY <1>1, <2>1 DEF NoFault, OneReload, ReloadComes, Reloading, InFlight
<1>2. CASE ClearPending \/ \E f \in Fields, v \in Values : Queue(f, v)
  BY <1>1, <1>2 DEF ClearPending, Queue, game
<1>3. ASSUME NEW c \in Calls, Commit(c) \/ Reload(c) \/ Page(c) \/ Handler(c)
      PROVE  NoFault' /\ OneReload' /\ ReloadComes'
  <2>1. heard
    BY <1>3 DEF Commit, Reload, Page, Committed, CommitFails, Reloaded, FetchThrows,
         Handler, NoSession, Exec, ApplyEdits, ListUnits, ListsFewer, Answer,
         ExecFails, Fault
  <2> QED BY <1>3, <2>1, TruthCall DEF Truth
<1>4. CASE Game
  BY <1>4 DEF Game, UnitGoes, UnitReturns, GameRenames
<1> QED BY <1>1, <1>2, <1>3, <1>4 DEF Next, User, vars

-----------------------------------------------------------------------------
(* The theorems.                                                             *)
IInv == TypeOK /\ Flow /\ Kept /\ EditsAreKept /\ Truth

LEMMA Inductive == Spec => []IInv
<1>1. Init => IInv
  <2> SUFFICES ASSUME Init PROVE IInv
    OBVIOUS
  <2>1. \A c \in Calls : calls[c] = Idle
    BY DEF Init
  <2>2. Flow
    BY <2>1, IdleRuns DEF Flow, MayRun
  <2>3. Kept /\ EditsAreKept
    BY <2>1, IdleRuns, NoEditsType
       DEF Init, Kept, EditsAreKept, QueuedAsWished, OnTheWay, Arrived
  <2>4. Truth
    BY <2>1, IdleRuns
       DEF Init, Truth, NoFault, OneReload, ReloadComes, InFlight
  <2> QED BY <2>2, <2>3, <2>4, InitType DEF IInv
<1>2. IInv /\ [Next]_vars => IInv'
  BY TypeStep, FlowStep, KeptStep, TruthStep DEF IInv
<1> QED BY <1>1, <1>2, PTL DEF Spec

(* Every variable of the therapist page and its game has its type.           *)
THEOREM TherapistTypeCorrect == Spec => []TypeOK
<1>1. IInv => TypeOK
  BY DEF IInv
<1> QED BY <1>1, Inductive, PTL

(* An edit queued while no commit is under way, on a field the page shows    *)
(* rightly, stays queued or is in the game, whatever fails, if the script    *)
(* finds its unit when it runs.                                              *)
THEOREM NoEditIsLost == Spec => []EditsAreKept
<1>1. IInv => EditsAreKept
  BY DEF IInv
<1> QED BY <1>1, Inductive, PTL

(* A page at rest shows what is in the game while nothing failed, the game   *)
(* did not change it and no two loads overlapped.                            *)
THEOREM PageShowsGame == Spec => []ShownIsTrue
<1>1. ASSUME IInv PROVE ShownIsTrue
  <2> SUFFICES ASSUME heard, \A c \in Calls : calls[c] = Idle PROVE units = value
    BY DEF ShownIsTrue
  <2>1. \A c \in Calls : calls[c].kind = "idle"
    BY IdleRuns
  <2> QED BY <1>1, <2>1 DEF IInv, Truth, ReloadComes, Reloading
<1> QED BY <1>1, Inductive, PTL

=============================================================================
