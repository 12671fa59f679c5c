------------------------------ MODULE Therapist ------------------------------
(***************************************************************************)
(* The edits of nicknames and professions on the therapist page: they are   *)
(* queued in the page, committed in one request that runs a DFHack script   *)
(* in the game's container, and the units are loaded anew.  The script has  *)
(* a time limit, after which the handler answers though the script may      *)
(* still run.                                                               *)
(*                                                                         *)
(* A field is the nickname or the profession of one unit.  The queue holds  *)
(* one edit per field, so it is a function from some fields to values.      *)
(***************************************************************************)
EXTENDS Integers, FiniteSets, Functions

CONSTANTS
  Fields,   \* the nicknames and professions that can be edited
  Values,   \* what they can be set to
  Calls,    \* the requests that can be in flight at once
  None,     \* no wish
  Faults    \* what may go wrong: session, command, list of the units, network

ASSUME FaultsAssumption == Faults \subseteq {"session", "exec", "lua", "network"}
ASSUME NoneAssumption == None \notin Values

VARIABLES
  value,    \* the fields in the game
  gone,     \* the fields of units that the scripts do not find
  units,    \* state.units: the fields as they were loaded
  pending,  \* state.pending
  calls,    \* the requests
  wish,     \* history: what the user last chose for each field
  unsure,   \* history: an edit was queued when the page was out of date
  missed,   \* history: the fields whose edit, when it was to be applied, found
            \* no unit, and that were not chosen anew
  heard     \* history: nothing failed, changed in the game or overlapped

game == <<value, gone>>
history == <<wish, unsure, missed, heard>>
vars == <<value, gone, units, pending, calls, history>>

Edits == UNION {[F -> Values] : F \in SUBSET Fields}
NoEdits == <<>>

Idle == [kind |-> "idle", at |-> "idle", edits |-> NoEdits, ok |-> FALSE,
         runs |-> FALSE]
Sent(kind, edits) ==
  [kind |-> kind, at |-> "sent", edits |-> edits, ok |-> FALSE, runs |-> FALSE]

(* The page has just loaded the units.                                       *)
Init ==
  /\ value \in [Fields -> Values] /\ gone = {}
  /\ units = value /\ pending = NoEdits
  /\ calls = [c \in Calls |-> Idle]
  /\ wish = [f \in Fields |-> None] /\ unsure = FALSE /\ heard = TRUE
  /\ missed = {}

Set(c, call) == calls' = [calls EXCEPT ![c] = call]
With(edits, f, v) ==
  [g \in DOMAIN edits \cup {f} |-> IF g = f THEN v ELSE edits[g]]
Without(edits, f) == Restrict(edits, DOMAIN edits \ {f})
InFlight(kind) == \E c \in Calls : calls[c].kind = kind
Fails(op) == op \in Faults
Fault == heard' = FALSE

-----------------------------------------------------------------------------
(* The page.                                                                 *)

(* queueNickname and queueCustomProf: a queued edit is dropped when it is    *)
(* taken back; one that was not is queued whatever its value.  The inputs    *)
(* stay while the units are loaded anew, without this one perhaps.           *)
Shows(f, v) == f \in DOMAIN units /\ units[f] = v

Queue(f, v) ==
  /\ pending' = IF f \in DOMAIN pending /\ Shows(f, v)
                THEN Without(pending, f) ELSE With(pending, f, v)
  /\ wish' = [wish EXCEPT ![f] = v]
  /\ unsure' = (unsure \/ InFlight("commit") \/ ~Shows(f, value[f]))
  /\ missed' = missed \ {f}
  /\ UNCHANGED <<game, units, calls, heard>>

ClearPending ==
  /\ pending # NoEdits
  /\ pending' = NoEdits /\ wish' = [f \in Fields |-> None]
  /\ UNCHANGED <<game, units, calls, unsure, missed, heard>>

(* commitPending, up to its await; the keyboard does not ask whether the     *)
(* button is disabled.                                                       *)
Commit(c) ==
  /\ calls[c] = Idle /\ pending # NoEdits
  /\ Set(c, Sent("commit", pending))
  /\ UNCHANGED <<game, units, pending, history>>

Reload(c) ==
  /\ calls[c] = Idle
  /\ Set(c, Sent("reload", NoEdits))
  /\ heard' = (heard /\ ~InFlight("reload"))
  /\ UNCHANGED <<game, units, pending, wish, unsure, missed>>

(* Mistake: the page trusts that it shows what it committed.                 *)
NoReload == Idle
AfterCommit == Sent("reload", NoEdits)

Committed(c) ==
  /\ calls[c].kind = "commit" /\ calls[c].at = "answered" /\ calls[c].ok
  /\ pending' = NoEdits
  /\ Set(c, AfterCommit)
  /\ heard' = (heard /\ ~InFlight("reload"))
  /\ UNCHANGED <<game, units, wish, unsure, missed>>

(* Mistake: what was sent is cleared, whatever the answer.                   *)
ClearsAnyway == NoEdits
OnRefusal == pending

(* The request is over for the page; its script may still run.               *)
Over(c) ==
  Set(c, IF calls[c].runs THEN [calls[c] EXCEPT !.at = "over"] ELSE Idle)

CommitFails(c) ==
  /\ calls[c].kind = "commit" /\ calls[c].at = "answered" /\ ~calls[c].ok
  /\ pending' = OnRefusal
  /\ Over(c)
  /\ UNCHANGED <<game, units, history>>

Reloaded(c) ==
  /\ calls[c].kind = "reload" /\ calls[c].at = "answered"
  /\ units' = IF calls[c].ok THEN calls[c].edits ELSE units
  /\ Set(c, Idle)
  /\ UNCHANGED <<game, pending, history>>

(* The connection is lost, and the fetch throws.                             *)
FetchThrows(c) ==
  /\ Fails("network") /\ calls[c].at \in {"sent", "runs", "ran", "answered"}
  /\ Over(c) /\ Fault
  /\ UNCHANGED <<game, units, pending, wish, unsure, missed>>

-----------------------------------------------------------------------------
(* handleDFHackCommit, handleDFHackUnitsFull and what they run.              *)

AnswerWith(c, ok) == Set(c, [calls[c] EXCEPT !.at = "answered", !.ok = ok])

NoSession(c) ==
  /\ Fails("session") /\ calls[c].at = "sent"
  /\ AnswerWith(c, FALSE) /\ Fault
  /\ UNCHANGED <<game, units, pending, wish, unsure, missed>>

Exec(c) ==
  /\ calls[c].at = "sent"
  /\ Set(c, [calls[c] EXCEPT !.at = "runs", !.runs = TRUE])
  /\ UNCHANGED <<game, units, pending, history>>

(* A script has run: nobody may listen any more.                             *)
Ran(c, listed) ==
  Set(c, CASE calls[c].at = "over" -> Idle
           [] calls[c].at = "runs" ->
                [calls[c] EXCEPT !.at = "ran", !.runs = FALSE, !.edits = listed]
           [] OTHER -> [calls[c] EXCEPT !.runs = FALSE])

(* web-commit.lua, when the game lets it run, applies the edits of the units *)
(* it finds, and reports the others to a page that only counts them.         *)
ApplyEdits(c) ==
  /\ calls[c].runs /\ calls[c].kind = "commit"
  /\ LET edits == calls[c].edits
     IN  /\ value' = [f \in Fields |-> IF f \in DOMAIN edits \ gone
                                       THEN edits[f] ELSE value[f]]
         /\ missed' = missed \cup {f \in DOMAIN edits : value'[f] # edits[f]}
  /\ Ran(c, NoEdits)
  /\ UNCHANGED <<gone, units, pending, wish, unsure, heard>>

ListUnits(c) ==
  /\ calls[c].runs /\ calls[c].kind = "reload"
  /\ Ran(c, Restrict(value, Fields \ gone))
  /\ UNCHANGED <<game, units, pending, history>>

(* web-units-full.lua fails, or fails at some units: it still answers, with  *)
(* an error or several in its JSON, and the page takes the units there are.  *)
ListsFewer(c) ==
  /\ Fails("lua") /\ calls[c].runs /\ calls[c].kind = "reload"
  /\ \E F \in SUBSET (Fields \ gone) : Ran(c, Restrict(value, F))
  /\ Fault
  /\ UNCHANGED <<game, units, pending, wish, unsure, missed>>

(* Whatever the exit code, an output that looks like JSON is the answer.     *)
Answer(c) ==
  /\ calls[c].at = "ran"
  /\ AnswerWith(c, TRUE)
  /\ UNCHANGED <<game, units, pending, history>>

(* Without one, or when the time is up, the answer is an error, whether the  *)
(* script has run or has yet to.                                             *)
ExecFails(c) ==
  /\ Fails("exec") /\ calls[c].at \in {"runs", "ran"}
  /\ AnswerWith(c, FALSE) /\ Fault
  /\ UNCHANGED <<game, units, pending, wish, unsure, missed>>

-----------------------------------------------------------------------------
(* The game: its player renames a unit there, the unit is gone or its        *)
(* fortress is unloaded, and the fortress is loaded again.  What an older    *)
(* save of it brings back is renamed too.                                    *)
GameRenames(f, v) ==
  /\ f \notin gone /\ value[f] # v
  /\ value' = [value EXCEPT ![f] = v] /\ wish' = [wish EXCEPT ![f] = None]
  /\ heard' = FALSE
  /\ UNCHANGED <<gone, units, pending, calls, unsure, missed>>

UnitGoes(f) ==
  /\ f \notin gone /\ gone' = gone \cup {f}
  /\ heard' = FALSE
  /\ UNCHANGED <<value, units, pending, calls, wish, unsure, missed>>

UnitReturns(f) ==
  /\ f \in gone /\ gone' = gone \ {f}
  /\ heard' = FALSE
  /\ UNCHANGED <<value, units, pending, calls, wish, unsure, missed>>

User == \/ \E f \in Fields, v \in Values : Queue(f, v)
        \/ ClearPending \/ \E c \in Calls : Commit(c) \/ Reload(c)
Game == \E f \in Fields : \/ UnitGoes(f) \/ UnitReturns(f)
                          \/ \E v \in Values : GameRenames(f, v)
Page(c) == Committed(c) \/ CommitFails(c) \/ Reloaded(c) \/ FetchThrows(c)
Handler(c) == \/ NoSession(c) \/ Exec(c) \/ ApplyEdits(c) \/ ListUnits(c)
              \/ ListsFewer(c) \/ Answer(c) \/ ExecFails(c)

Next == User \/ Game \/ \E c \in Calls : Page(c) \/ Handler(c)

Spec == Init /\ [][Next]_vars

-----------------------------------------------------------------------------
(* Every variable has its type.                                              *)
Call == [kind : {"idle", "commit", "reload"},
         at : {"idle", "sent", "runs", "ran", "answered", "over"},
         edits : Edits, ok : BOOLEAN, runs : BOOLEAN]

TypeOK ==
  /\ value \in [Fields -> Values] /\ gone \in SUBSET Fields
  /\ units \in Edits /\ pending \in Edits
  /\ calls \in [Calls -> Call]
  /\ wish \in [Fields -> Values \cup {None}]
  /\ unsure \in BOOLEAN /\ missed \in SUBSET Fields /\ heard \in BOOLEAN

(* What the user last chose for a unit is queued or in the game, whatever    *)
(* fails and however commits overlap, if nothing is queued while a commit is *)
(* under way or for a field the page shows wrongly, and if the unit is there *)
(* when the commit's script runs: whether it comes back later or not, the    *)
(* page has forgotten the edit (therapist.html:627-699,                      *)
(* web-commit.lua:39-41, 56-58).                                             *)
EditsAreKept ==
  ~unsure =>
    \A f \in Fields \ missed :
      wish[f] # None => \/ f \in DOMAIN pending /\ pending[f] = wish[f]
                        \/ value[f] = wish[f]

(* A page at rest shows what is in the game, if nothing failed, the game did *)
(* not change it and no two loads overlapped: a commit that was applied is   *)
(* seen (therapist.html:374-428, 679-699).                                   *)
ShownIsTrue ==
  heard /\ (\A c \in Calls : calls[c] = Idle) => units = value
=============================================================================
