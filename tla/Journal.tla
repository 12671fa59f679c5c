------------------------------- MODULE Journal -------------------------------
(***************************************************************************)
(* The journal of a save: the editor of the play page with its autosave     *)
(* timer, the fetches it has in flight, and the handlers that read journal  *)
(* files and replace them through temporary files.  Nothing orders two      *)
(* fetches, and whatever they answer is applied to the page as it is then.  *)
(* A handler does not notice that its fetch has thrown: it goes on.         *)
(*                                                                         *)
(* A text is the set of the passages in it.  A passage is what was typed    *)
(* before one save of the text, or a save itself, for what its journal had  *)
(* at the start.  The user only adds to the text; there is one page.        *)
(***************************************************************************)
EXTENDS Integers, Sequences, FiniteSets

CONSTANTS
  Saves,      \* the user's save directories, which are there all the time
  Calls,      \* the fetches that can be in flight at once
  None,       \* no save
  Faults,     \* the operations that may fail
  MaxEdits,   \* bound on the passages typed
  MaxHasty    \* bound on what the user does hastily

Fallible == {"read", "create", "write", "rename", "network"}

ASSUME SavesAssumption == Saves # {} /\ Saves \cap Nat = {}
ASSUME NoneAssumption == None \notin Saves
ASSUME FaultsAssumption == Faults \subseteq Fallible
ASSUME BoundsAssumption == {MaxEdits, MaxHasty} \subseteq Nat

VARIABLES
  journal,    \* the text in journal.md of each save
  temps,      \* the content of each fetch's .journal-*.tmp, if there is one
  calls,      \* the fetches in flight, and the handlers of those that threw
  tab,        \* the tab of the sidebar
  current,    \* currentSave
  text,       \* what the textarea shows
  dirty,      \* journalDirty
  timer,      \* whether journalSaveTimer is set
  home,       \* history: the save current when each passage was typed
  fresh,      \* history: the text shown was loaded for the current save
  hasty,      \* history: how many acts of the user were hasty
  mishaps     \* history: what went wrong

page == <<tab, current, text, dirty, timer>>
disk == <<journal, temps>>
history == <<home, fresh, hasty, mishaps>>
vars == <<journal, temps, calls, page, history>>

Passages == Saves \cup Nat
Idle == [kind |-> "idle", at |-> "idle", save |-> None, text |-> {},
         ok |-> FALSE, awaited |-> FALSE]
Sent(kind, save, what) ==
  [kind |-> kind, at |-> "sent", save |-> save, text |-> what, ok |-> FALSE,
   awaited |-> TRUE]

(* The user is hasty who types or saves while something is loading or being  *)
(* saved, or opens the sidebar or chooses a save while something is loading  *)
(* or unsaved.  An act is stale, and hasty too, that types or saves while    *)
(* the text shown is not that of the current save, or chooses another save   *)
(* while a text is loading or unsaved.  A save is overtaking when it is sent *)
(* while the handler of one whose fetch threw is still at work.              *)
Mishaps == {"stale", "overtaking", "fault"}

Init ==
  /\ journal = [s \in Saves |-> {s}] /\ temps = [c \in Calls |-> {}]
  /\ calls = [c \in Calls |-> Idle]
  /\ tab = "journal" /\ current = None /\ text = {} /\ dirty = FALSE
  /\ timer = FALSE
  /\ home = <<>> /\ fresh = FALSE /\ hasty = 0 /\ mishaps = {}

InFlight(kind) == \E c \in Calls : calls[c].kind = kind /\ calls[c].awaited
Loading == InFlight("list") \/ InFlight("get")
Abandoned == \E c \in Calls : calls[c].kind = "put" /\ ~calls[c].awaited
Start(c, kind, save, what) ==
  calls[c] = Idle /\ calls' = [calls EXCEPT ![c] = Sent(kind, save, what)]
End(c) == calls' = [calls EXCEPT ![c] = Idle]
Notes(found) == mishaps' = mishaps \cup found
(* An act of the user.                                                       *)
Acts(isStale, isHasty, found) ==
  /\ Notes(found \cup {m \in {"stale"} : isStale})
  /\ hasty' = IF isStale \/ isHasty THEN hasty + 1 ELSE hasty
  /\ hasty' <= MaxHasty
Fails(op) == op \in Faults
Fault == Notes({"fault"}) /\ UNCHANGED hasty

-----------------------------------------------------------------------------
(* The page.                                                                 *)

(* toggleSidebar: the sidebar opens and fetches the saves anew.              *)
OpenSidebar(c) ==
  /\ Start(c, "list", None, {})
  /\ Acts(FALSE, dirty \/ Loading, {})
  /\ UNCHANGED <<disk, page, home, fresh>>

(* Mistake: the journal is asked for before the new save is noted.           *)
AskedBefore(s) == current
AskedFor(s) == s

(* onSaveChange: only the journal's own tab loads the journal.               *)
OnSaveChange(c, s) ==
  /\ current' = s /\ fresh' = (fresh /\ s = current)
  /\ calls' = [calls EXCEPT ![c] =
                 IF tab = "journal" THEN Sent("get", AskedFor(s), {}) ELSE Idle]
  /\ UNCHANGED <<disk, tab, text, dirty, timer, home>>

SelectSave(c, s) ==
  /\ current \notin {None, s} /\ calls[c] = Idle
  /\ Acts(dirty \/ InFlight("get"), Loading, {})
  /\ OnSaveChange(c, s)

(* loadSaves keeps the save selected, at first the one last played.          *)
ListArrives(c) ==
  /\ calls[c].kind = "list" /\ calls[c].at = "answered" /\ calls[c].ok
  /\ OnSaveChange(c, IF current = None THEN calls[c].save ELSE current)
  /\ UNCHANGED <<hasty, mishaps>>

ListFails(c) ==
  /\ calls[c].kind = "list" /\ calls[c].at = "answered" /\ ~calls[c].ok
  /\ End(c)
  /\ UNCHANGED <<disk, page, history>>

(* switchSTab: coming back to the journal does not load it.                  *)
SwitchTab ==
  /\ tab' = IF tab = "journal" THEN "other" ELSE "journal"
  /\ UNCHANGED <<disk, calls, current, text, dirty, timer, history>>

(* loadJournal, when its answer is there.                                    *)
LoadArrives(c) ==
  /\ calls[c].kind = "get" /\ calls[c].at = "answered"
  /\ text' = IF calls[c].ok THEN calls[c].text ELSE {}
  /\ dirty' = FALSE /\ fresh' = calls[c].ok
  /\ End(c)
  /\ UNCHANGED <<disk, tab, current, timer, home, hasty, mishaps>>

(* What the user adds to, or saves, should be there and rest.                *)
ActsOnText(found) == Acts(~fresh, Loading \/ InFlight("put"), found)

(* The input listener: what is typed sets the timer anew.                    *)
Type ==
  /\ tab = "journal" /\ Len(home) < MaxEdits
  /\ home' = Append(home, current)
  /\ text' = text \cup {Len(home) + 1}
  /\ dirty' = TRUE /\ timer' = TRUE
  /\ ActsOnText({})
  /\ UNCHANGED <<disk, calls, tab, current, fresh>>

(* saveJournal, up to its await.                                             *)
SaveJournal(c) ==
  /\ current # None
  /\ Start(c, "put", current, text)
  /\ timer' = FALSE
  /\ UNCHANGED <<disk, tab, current, text, dirty, home, fresh>>
Overtaking == {m \in {"overtaking"} : Abandoned}

ClickSave(c) == tab = "journal" /\ SaveJournal(c) /\ ActsOnText(Overtaking)

(* Mistake: the timer saves only while the journal is looked at.             *)
UnsavedAndShown == dirty /\ tab = "journal"
(* saveJournalAuto: the timer asks nobody whose text it saves.               *)
Unsaved == dirty

TimerFires ==
  /\ timer
  /\ \/ /\ Unsaved /\ \E c \in Calls : SaveJournal(c)
        /\ Notes(Overtaking) /\ UNCHANGED hasty
     \/ /\ ~Unsaved \/ current = None
        /\ timer' = FALSE
        /\ UNCHANGED <<disk, calls, tab, current, text, dirty, history>>

(* Mistake: an answer that is no success is taken for one.                   *)
CleanAnyway(c) == FALSE
(* After the await: the text may have changed meanwhile.                     *)
DirtyAfter(c) == dirty /\ ~calls[c].ok

PutArrives(c) ==
  /\ calls[c].kind = "put" /\ calls[c].at = "answered"
  /\ dirty' = DirtyAfter(c)
  /\ End(c)
  /\ UNCHANGED <<disk, tab, current, text, timer, history>>

(* A fetch that throws changes nothing but the status line.  Its request may *)
(* have been lost, or its answer; a handler that replaces a journal goes on. *)
FetchThrows(c) ==
  /\ calls[c].awaited /\ Fails("network")
  /\ \/ calls[c].at \in {"sent", "answered"} /\ End(c)
     \/ /\ calls[c].kind = "put" /\ calls[c].at # "answered"
        /\ calls' = [calls EXCEPT ![c].awaited = FALSE]
  /\ Fault
  /\ UNCHANGED <<disk, page, home, fresh>>

-----------------------------------------------------------------------------
(* The session manager.                                                      *)

(* An answer that nobody awaits is dropped.                                  *)
Answered(call, ok, save, what) ==
  IF call.awaited
  THEN [call EXCEPT !.at = "answered", !.save = save, !.text = what, !.ok = ok]
  ELSE Idle
Answer(c, ok, save, what) ==
  calls' = [calls EXCEPT ![c] = Answered(calls[c], ok, save, what)]
AnswerWith(c, ok) == Answer(c, ok, None, {})
Asks(c, kind) == calls[c].kind = kind /\ calls[c].at = "sent"

(* handleSaves: any save may be the one modified last.                       *)
ListSaves(c) ==
  /\ Asks(c, "list")
  /\ \E first \in Saves : Answer(c, TRUE, first, {})
  /\ UNCHANGED <<disk, page, history>>

(* handleJournal, GET.                                                       *)
ReadJournal(c) ==
  /\ Asks(c, "get") /\ calls[c].save \in Saves
  /\ Answer(c, TRUE, None, journal[calls[c].save])
  /\ UNCHANGED <<disk, page, history>>

ReadFails(c) ==
  /\ Asks(c, "list") \/ Asks(c, "get")
  /\ Fails("read") \/ (Asks(c, "get") /\ calls[c].save \notin Saves)
  /\ AnswerWith(c, FALSE) /\ Fault
  /\ UNCHANGED <<disk, page, home, fresh>>

(* Mistake: all requests write the same temporary file.                      *)
OneTemp(c) == CHOOSE d \in Calls : TRUE
(* os.CreateTemp(filepath.Dir(path), ".journal-*.tmp")                       *)
TempOf(c) == c

(* handleJournal, PUT: the body is read and the temporary file is made.      *)
CreateTemp(c) ==
  /\ Asks(c, "put")
  /\ temps' = [temps EXCEPT ![TempOf(c)] = {{}}]
  /\ calls' = [calls EXCEPT ![c].at = "created"]
  /\ UNCHANGED <<journal, page, history>>

CreateFails(c) ==
  /\ Asks(c, "put") /\ Fails("create")
  /\ AnswerWith(c, FALSE) /\ Fault
  /\ UNCHANGED <<disk, page, home, fresh>>

WriteTemp(c) ==
  /\ calls[c].at = "created"
  /\ temps' = [temps EXCEPT ![TempOf(c)] = {calls[c].text}]
  /\ calls' = [calls EXCEPT ![c].at = "written"]
  /\ UNCHANGED <<journal, page, history>>

(* Whatever fails from here on removes the temporary file.                   *)
PutFails(c) ==
  /\ \/ calls[c].at = "created" /\ Fails("write")
     \/ calls[c].at = "written" /\ (Fails("rename") \/ temps[TempOf(c)] = {})
  /\ temps' = [temps EXCEPT ![TempOf(c)] = {}]
  /\ AnswerWith(c, FALSE) /\ Fault
  /\ UNCHANGED <<journal, page, home, fresh>>

Rename(c) ==
  /\ calls[c].at = "written"
  /\ \E content \in temps[TempOf(c)] :
       journal' = [journal EXCEPT ![calls[c].save] = content]
  /\ temps' = [temps EXCEPT ![TempOf(c)] = {}]
  /\ AnswerWith(c, TRUE)
  /\ UNCHANGED <<page, history>>

(* The session manager dies and the fetches it has throw.  The temporary     *)
(* files it leaves have names that no request will use again.                *)
Crash ==
  /\ \E c \in Calls : calls[c].at \in {"sent", "created", "written"}
  /\ temps' = [c \in Calls |-> {}]
  /\ calls' = [c \in Calls |->
                 IF calls[c].at = "answered" THEN calls[c] ELSE Idle]
  /\ Fault
  /\ UNCHANGED <<journal, page, home, fresh>>

-----------------------------------------------------------------------------
User == \/ SwitchTab \/ Type
        \/ \E c \in Calls : OpenSidebar(c) \/ ClickSave(c)
        \/ \E c \in Calls, s \in Saves : SelectSave(c, s)

Arrives(c) == ListArrives(c) \/ ListFails(c) \/ LoadArrives(c) \/ PutArrives(c)
Handle(c) == \/ ListSaves(c) \/ ReadJournal(c) \/ ReadFails(c) \/ CreateTemp(c)
             \/ CreateFails(c) \/ WriteTemp(c) \/ PutFails(c) \/ Rename(c)

Next == User \/ TimerFires \/ Crash
        \/ \E c \in Calls : Arrives(c) \/ FetchThrows(c) \/ Handle(c)

(* Timers fire, handlers go on, and what they answer arrives.                *)
Fairness == /\ WF_vars(TimerFires)
            /\ \A c \in Calls : WF_vars(Handle(c)) /\ WF_vars(Arrives(c))

Spec == Init /\ [][Next]_vars /\ Fairness

-----------------------------------------------------------------------------
(* Every variable has its type.                                              *)
Call == [kind : {"idle", "list", "get", "put"},
         at : {"idle", "sent", "created", "written", "answered"},
         save : Saves \cup {None}, text : SUBSET Passages, ok : BOOLEAN,
         awaited : BOOLEAN]

TypeOK ==
  /\ journal \in [Saves -> SUBSET Passages]
  /\ temps \in [Calls -> SUBSET SUBSET Passages]
  /\ calls \in [Calls -> Call]
  /\ tab \in {"journal", "other"} /\ current \in Saves \cup {None}
  /\ text \in SUBSET Passages /\ dirty \in BOOLEAN /\ timer \in BOOLEAN
  /\ home \in Seq(Saves \cup {None}) /\ Len(home) <= MaxEdits
  /\ fresh \in BOOLEAN /\ hasty \in 0..MaxHasty
  /\ mishaps \in SUBSET Mishaps

Made == Saves \cup DOMAIN home
HomeOf(e) == IF e \in Saves THEN e ELSE home[e]
Stored(e) == \E s \in Saves : e \in journal[s] /\ HomeOf(e) = s

(* Whatever overlaps, fails or crashes, and whenever the timer fires, no     *)
(* text gets into the journal of another save, unless the user types or      *)
(* saves before the text of the save chosen last is there, or chooses        *)
(* another while a text is loading or unsaved; then the timer alone would do *)
(* it (play-sdl.html:414-453).                                               *)
NoMixing ==
  "stale" \notin mishaps =>
    \A s \in Saves : \A e \in journal[s] : HomeOf(e) = s

(* Nothing of a journal is lost: each passage is in the file of its save or  *)
(* in a text the page knows to be unsaved, whatever fails, as long as the    *)
(* user waits for what is loading or being saved and chooses a save only     *)
(* when nothing is unsaved, and no text is sent while the handler of one     *)
(* whose fetch threw is at work (play-sdl.html:414-453, journal.go:100-134). *)
PassagesAreKept ==
  hasty = 0 /\ "overtaking" \notin mishaps =>
    \A e \in Made : \/ Stored(e)
                    \/ dirty /\ e \in text /\ current = HomeOf(e)

(* What a PUT puts in place is what it was sent, even beside another one of  *)
(* the same journal (journal.go:111-134).                                    *)
StoredAsSent ==
  [][\A c \in Calls : Rename(c) => journal'[calls[c].save] = calls[c].text]_vars

(* What is typed gets into the file of its save without a click: the timer   *)
(* always outlives the text it is to save, if nothing fails and the user is  *)
(* patient (play-sdl.html:433-453).                                          *)
Smooth == hasty = 0 /\ mishaps = {}
TypedIsStored ==
  \A e \in 1..MaxEdits :
    (e \in DOMAIN home /\ Smooth) ~> (~Smooth \/ Stored(e))
=============================================================================
