--------------------------- MODULE Journal_proofs ---------------------------
(***************************************************************************)
(* For any saves and any number of fetches, whatever overlaps, fails or     *)
(* crashes: Journal is type correct, a PUT puts in place what it was sent,  *)
(* no text gets into the journal of another save unless the user acts on a  *)
(* text that is not there yet or leaves one that is unsaved, and nothing is *)
(* lost if the user waits and no save overtakes an abandoned one.           *)
(***************************************************************************)
EXTENDS Journal, SequenceTheorems, TLAPS

(* A PUT has a save and, once it is written, a temporary file of its own     *)
(* with the text it was sent.  Only a PUT goes on when nobody awaits it.     *)
PutsAreWhole ==
  \A c \in Calls :
    /\ calls[c].kind \in {"list", "get"} \/ calls[c].at = "answered" => calls[c].awaited
    /\ calls[c].kind = "put" /\ calls[c].at # "answered" => calls[c].save \in Saves
    /\ calls[c].at \in {"created", "written"} => calls[c].kind = "put"
    /\ calls[c].at = "written" => temps[c] = {calls[c].text}

(* Each passage of the text has a home, which is this save.                  *)
Owned(h, passages, s) ==
  \A e \in passages : e \in Saves \cup DOMAIN h
                      /\ (IF e \in Saves THEN e ELSE h[e]) = s

(* The passages of a text belong to its save, wherever the text is: in a     *)
(* file, on the page once it is loaded, on its way to a file or to the page. *)
CallIsSorted(c) ==
  /\ calls[c].kind = "get" => current \in Saves
  /\ calls[c].kind = "list" /\ calls[c].at = "answered" /\ calls[c].ok =>
       calls[c].save \in Saves
  /\ calls[c].kind = "put" /\ calls[c].at # "answered" =>
       Owned(home, calls[c].text, calls[c].save)
  /\ calls[c].kind = "get" /\ calls[c].at = "sent" => calls[c].save = current
  /\ calls[c].kind = "get" /\ calls[c].at = "answered" /\ calls[c].ok =>
       Owned(home, calls[c].text, current)

Sorted ==
  /\ \A s \in Saves : Owned(home, journal[s], s)
  /\ fresh => current \in Saves /\ Owned(home, text, current)
  /\ dirty => fresh
  /\ \A c \in Calls : CallIsSorted(c)

(* What is inductive.                                                        *)
Inv == TypeOK /\ PutsAreWhole /\ ("stale" \notin mishaps => Sorted)

-----------------------------------------------------------------------------
(* The invariant holds at the start.                                         *)
LEMMA InitHolds == Init => Inv
<1> SUFFICES ASSUME Init PROVE Inv
  OBVIOUS
<1>1. TypeOK
  <2>1. <<>> \in Seq(Saves \cup {None}) /\ Len(<<>>) = 0
    BY EmptySeq
  <2>2. calls \in [Calls -> Call]
    BY DEF Init, Idle, Call
  <2>3. journal \in [Saves -> SUBSET Passages] /\ temps \in [Calls -> SUBSET SUBSET Passages]
    BY DEF Init, Passages
  <2>4. hasty \in 0..MaxHasty /\ Len(home) <= MaxEdits /\ home \in Seq(Saves \cup {None})
    BY <2>1, BoundsAssumption DEF Init
  <2>5. /\ tab \in {"journal", "other"} /\ current \in Saves \cup {None}
        /\ text \in SUBSET Passages /\ dirty \in BOOLEAN /\ timer \in BOOLEAN
        /\ fresh \in BOOLEAN /\ mishaps \in SUBSET Mishaps
    BY DEF Init
  <2> QED BY <2>2, <2>3, <2>4, <2>5 DEF TypeOK
<1>2. PutsAreWhole
  BY DEF Init, PutsAreWhole, Idle
<1>3. Sorted
  BY DEF Init, Sorted, CallIsSorted, Owned, Idle
<1> QED BY <1>1, <1>2, <1>3 DEF Inv

-----------------------------------------------------------------------------
(* Types.                                                                    *)

(* What an act of the user leaves in the history.                            *)
LEMMA ActsType ==
  ASSUME TypeOK, NEW isStale \in BOOLEAN, NEW isHasty \in BOOLEAN,
         NEW found \in SUBSET Mishaps, Acts(isStale, isHasty, found)
  PROVE  /\ hasty' \in 0..MaxHasty /\ mishaps' \in SUBSET Mishaps
         /\ mishaps \subseteq mishaps' /\ (isStale => "stale" \in mishaps')
<1>1. hasty \in 0..MaxHasty /\ MaxHasty \in Nat /\ mishaps \in SUBSET Mishaps
  BY BoundsAssumption DEF TypeOK
<1>2. hasty' \in 0..MaxHasty
  BY <1>1 DEF Acts
<1>3. mishaps' = mishaps \cup found \cup {m \in {"stale"} : isStale}
  BY DEF Acts, Notes
<1> QED BY <1>1, <1>2, <1>3 DEF Mishaps

(* What the conditions of an act are.                                        *)
LEMMA Conditions ==
  ASSUME TypeOK
  PROVE  /\ Loading \in BOOLEAN /\ dirty \in BOOLEAN /\ (~fresh) \in BOOLEAN
         /\ (dirty \/ Loading) \in BOOLEAN /\ (dirty \/ InFlight("get")) \in BOOLEAN
         /\ (Loading \/ InFlight("put")) \in BOOLEAN
         /\ {} \in SUBSET Mishaps /\ Overtaking \in SUBSET Mishaps
BY DEF Loading, InFlight, TypeOK, Overtaking, Mishaps

(* The calls keep their type when one of them becomes a call.                *)
LEMMA CallType ==
  ASSUME TypeOK, NEW c \in Calls, NEW call \in Call,
         calls' = [calls EXCEPT ![c] = call]
  PROVE  calls' \in [Calls -> Call]
BY DEF TypeOK

(* A save is chosen.                                                         *)
LEMMA OnSaveChangeType ==
  ASSUME TypeOK, NEW c \in Calls, NEW s \in Saves \cup {None}, OnSaveChange(c, s),
         hasty' \in 0..MaxHasty, mishaps' \in SUBSET Mishaps
  PROVE  TypeOK'
<1>1. calls' \in [Calls -> Call]
  <2>1. Sent("get", AskedFor(s), {}) \in Call /\ Idle \in Call
    BY DEF Sent, AskedFor, Idle, Call
  <2> QED BY <2>1, CallType DEF OnSaveChange
<1>2. fresh' \in BOOLEAN
  BY DEF OnSaveChange, TypeOK
<1> QED BY <1>1, <1>2 DEF TypeOK, OnSaveChange, disk

(* The text is sent.                                                         *)
LEMMA SaveJournalType ==
  ASSUME TypeOK, NEW c \in Calls, SaveJournal(c),
         hasty' \in 0..MaxHasty, mishaps' \in SUBSET Mishaps
  PROVE  TypeOK'
<1>1. calls' \in [Calls -> Call]
  <2>1. Sent("put", current, text) \in Call
    BY DEF Sent, Call, TypeOK
  <2> QED BY <2>1, CallType DEF SaveJournal, Start
<1> QED BY <1>1 DEF TypeOK, SaveJournal, disk

(* Something is typed.                                                       *)
LEMMA TypeType ==
  ASSUME TypeOK, Type
  PROVE  TypeOK'
<1>1. hasty' \in 0..MaxHasty /\ mishaps' \in SUBSET Mishaps
  BY Conditions, ActsType DEF Type, ActsOnText
<1>2. home' \in Seq(Saves \cup {None}) /\ Len(home') <= MaxEdits
  <2>1. /\ Append(home, current) \in Seq(Saves \cup {None})
        /\ Len(Append(home, current)) = Len(home) + 1
    BY AppendProperties DEF TypeOK
  <2>2. Len(home) \in Nat /\ Len(home) < MaxEdits /\ MaxEdits \in Nat
    BY LenProperties, BoundsAssumption DEF TypeOK, Type
  <2> QED BY <2>1, <2>2 DEF Type
<1>3. text' \in SUBSET Passages
  BY LenProperties DEF TypeOK, Type, Passages
<1> QED BY <1>1, <1>2, <1>3 DEF TypeOK, Type, disk

(* Every step keeps the types.                                               *)
LEMMA TypeStep == TypeOK /\ [Next]_vars => TypeOK'
<1> SUFFICES ASSUME TypeOK, [Next]_vars PROVE TypeOK'
  OBVIOUS
<1> USE DEF TypeOK, disk, page, history
<1>1. CASE SwitchTab
  BY <1>1 DEF SwitchTab
<1>2. CASE Type
  BY <1>2, TypeType
<1>3. CASE TimerFires
  <2>1. ASSUME NEW c \in Calls, SaveJournal(c), Notes(Overtaking), hasty' = hasty
        PROVE  TypeOK'
    <3>1. hasty' \in 0..MaxHasty /\ mishaps' \in SUBSET Mishaps
      BY <2>1, Conditions DEF Notes
    <3> QED BY <2>1, <3>1, SaveJournalType
  <2> QED BY <1>3, <2>1 DEF TimerFires
<1>4. CASE Crash
  <2>1. calls' \in [Calls -> Call]
    BY <1>4 DEF Crash, Idle, Call
  <2> QED BY <1>4, <2>1 DEF Crash, Fault, Notes, Mishaps
<1>5. ASSUME NEW c \in Calls, NEW s \in Saves, SelectSave(c, s)
      PROVE  TypeOK'
  <2>1. Acts(dirty \/ InFlight("get"), Loading, {}) /\ OnSaveChange(c, s)
    BY <1>5 DEF SelectSave
  <2>2. TypeOK
    OBVIOUS
  <2>3. hasty' \in 0..MaxHasty /\ mishaps' \in SUBSET Mishaps
    BY ONLY <2>1, <2>2, Conditions, ActsType
  <2> QED BY <2>1, <2>3, OnSaveChangeType
<1>6. ASSUME NEW c \in Calls,
             OpenSidebar(c) \/ ClickSave(c) \/ Arrives(c) \/ FetchThrows(c)
      PROVE  TypeOK'
  <2>0. Idle \in Call /\ Sent("list", None, {}) \in Call
    BY DEF Idle, Sent, Call
  <2>1. CASE OpenSidebar(c)
    <3>1. Acts(FALSE, dirty \/ Loading, {}) /\ TypeOK
      BY <2>1 DEF OpenSidebar
    <3>2. hasty' \in 0..MaxHasty /\ mishaps' \in SUBSET Mishaps
      BY ONLY <3>1, Conditions, ActsType
    <3> QED BY <2>1, <2>0, <3>2, CallType DEF OpenSidebar, Start
  <2>2. CASE ClickSave(c)
    <3>1. /\ Acts(~fresh, Loading \/ InFlight("put"), Overtaking)
          /\ TypeOK /\ SaveJournal(c)
      BY <2>2 DEF ClickSave, ActsOnText
    <3>2. hasty' \in 0..MaxHasty /\ mishaps' \in SUBSET Mishaps
      BY ONLY <3>1, Conditions, ActsType
    <3> QED BY <3>1, <3>2, SaveJournalType
  <2>3. CASE ListArrives(c)
    <3>1. calls[c].save \in Saves \cup {None}
      BY DEF Call
    <3> QED BY <2>3, <3>1, OnSaveChangeType DEF ListArrives
  <2>4. CASE ListFails(c)
    BY <2>4, <2>0, CallType DEF ListFails, End
  <2>5. CASE LoadArrives(c)
    <3>1. calls[c].text \in SUBSET Passages /\ calls[c].ok \in BOOLEAN
      BY DEF Call
    <3> QED BY <2>5, <2>0, <3>1, CallType DEF LoadArrives, End
  <2>6. CASE PutArrives(c)
    BY <2>6, <2>0, CallType DEF PutArrives, End, DirtyAfter
  <2>7. CASE FetchThrows(c)
    <3>1. [calls[c] EXCEPT !.awaited = FALSE] \in Call
      <4>1. calls[c] \in Call
        OBVIOUS
      <4> QED BY ONLY <4>1 DEF Call
    <3>2. calls' = [calls EXCEPT ![c] = Idle]
          \/ calls' = [calls EXCEPT ![c] = [calls[c] EXCEPT !.awaited = FALSE]]
      BY <2>7 DEF FetchThrows, End
    <3>3. calls' \in [Calls -> Call]
      BY <2>0, <3>1, <3>2, CallType
    <3> QED BY <2>7, <3>3 DEF FetchThrows, Fault, Notes, Mishaps
  <2> QED BY <1>6, <2>1, <2>2, <2>3, <2>4, <2>5, <2>6, <2>7 DEF Arrives
<1>7. ASSUME NEW c \in Calls, Handle(c)
      PROVE  TypeOK'
  <2>0. calls[c] \in Call
    OBVIOUS
  <2>1. ASSUME NEW ok \in BOOLEAN, NEW save \in Saves \cup {None},
               NEW what \in SUBSET Passages, Answer(c, ok, save, what)
        PROVE  calls' \in [Calls -> Call]
    <3>1. Answered(calls[c], ok, save, what) \in Call
      BY <2>0 DEF Answered, Idle, Call
    <3> QED BY <2>1, <3>1, CallType DEF Answer
  <2>2. ASSUME AnswerWith(c, TRUE) \/ AnswerWith(c, FALSE)
        PROVE  calls' \in [Calls -> Call]
    <3>1. {} \in SUBSET Passages /\ None \in Saves \cup {None}
      OBVIOUS
    <3> QED BY ONLY <2>1, <2>2, <3>1 DEF AnswerWith
  <2>3. CASE ListSaves(c)
    <3>1. PICK first \in Saves : Answer(c, TRUE, first, {})
      BY <2>3 DEF ListSaves
    <3>2. calls' \in [Calls -> Call]
      <4>1. {} \in SUBSET Passages /\ first \in Saves \cup {None}
        OBVIOUS
      <4> QED BY ONLY <2>1, <3>1, <4>1
    <3> QED BY <2>3, <3>2 DEF ListSaves
  <2>4. CASE ReadJournal(c)
    BY <2>4, <2>1 DEF ReadJournal
  <2>5. CASE ReadFails(c)
    BY <2>5, <2>2 DEF ReadFails, Fault, Notes, Mishaps
  <2>6. CASE CreateTemp(c)
    BY <2>6, <2>0 DEF CreateTemp, TempOf, Call
  <2>7. CASE CreateFails(c)
    BY <2>7, <2>2 DEF CreateFails, Fault, Notes, Mishaps
  <2>8. CASE WriteTemp(c)
    BY <2>8, <2>0 DEF WriteTemp, TempOf, Call
  <2>9. CASE PutFails(c)
    BY <2>9, <2>2 DEF PutFails, TempOf, Fault, Notes, Mishaps
  <2>10. CASE Rename(c)
    <3>1. PICK content \in temps[c] :
            journal' = [journal EXCEPT ![calls[c].save] = content]
      BY <2>10 DEF Rename, TempOf
    <3>2. content \in SUBSET Passages
      BY <3>1
    <3>3. journal' \in [Saves -> SUBSET Passages] /\ calls' \in [Calls -> Call]
      BY <2>2, <2>10, <3>1, <3>2 DEF Rename
    <3> QED BY <2>10, <3>3 DEF Rename, TempOf
  <2> QED BY <1>7, <2>3, <2>4, <2>5, <2>6, <2>7, <2>8, <2>9, <2>10 DEF Handle
<1>8. CASE UNCHANGED vars
  BY <1>8 DEF vars
<1> QED BY <1>1, <1>2, <1>3, <1>4, <1>5, <1>6, <1>7, <1>8 DEF Next, User

-----------------------------------------------------------------------------
(* What a PUT works on.                                                      *)

(* A call that starts is no PUT under way, or has a save.                    *)
LEMMA PutsStay ==
  ASSUME TypeOK, PutsAreWhole, NEW c \in Calls, NEW call,
         call.kind = "put" /\ call.at # "answered" => call.save \in Saves,
         call.kind \in {"list", "get"} \/ call.at = "answered" => call.awaited,
         call.at \notin {"created", "written"},
         calls' = [calls EXCEPT ![c] = call],
         \A d \in Calls \ {c} : temps'[d] = temps[d]
  PROVE  PutsAreWhole'
BY DEF TypeOK, PutsAreWhole

(* Every step keeps it.                                                      *)
LEMMA PutsStep == TypeOK /\ PutsAreWhole /\ [Next]_vars => PutsAreWhole'
<1> SUFFICES ASSUME TypeOK, PutsAreWhole, [Next]_vars PROVE PutsAreWhole'
  OBVIOUS
<1>0. ASSUME NEW c \in Calls, SaveJournal(c) PROVE PutsAreWhole'
  <2>1. current \in Saves
    BY <1>0 DEF SaveJournal, TypeOK
  <2>2. /\ Sent("put", current, text).save \in Saves
        /\ Sent("put", current, text).at = "sent"
        /\ Sent("put", current, text).awaited
    BY <2>1 DEF Sent
  <2> QED BY <1>0, <2>2, PutsStay DEF SaveJournal, Start, disk
<1>1. ASSUME NEW c \in Calls, NEW s, OnSaveChange(c, s) PROVE PutsAreWhole'
  <2> DEFINE call == IF tab = "journal" THEN Sent("get", AskedFor(s), {}) ELSE Idle
  <2>1. /\ call.kind # "put" /\ call.at \notin {"created", "written", "answered"}
        /\ call.kind = "get" => call.awaited
        /\ call.kind # "list"
    BY DEF Sent, Idle
  <2>2. calls' = [calls EXCEPT ![c] = call] /\ temps' = temps
    BY <1>1 DEF OnSaveChange, disk
  <2> HIDE DEF call
  <2> QED BY <2>1, <2>2, PutsStay
<1>2. ASSUME NEW c \in Calls, calls' = [calls EXCEPT ![c] = Idle], temps' = temps
      PROVE  PutsAreWhole'
  <2>1. Idle.kind = "idle" /\ Idle.at = "idle"
    BY DEF Idle
  <2> QED BY <1>2, <2>1, PutsStay
<1>3. ASSUME NEW c \in Calls, NEW ok, NEW save, NEW what, Answer(c, ok, save, what),
             \A d \in Calls \ {c} : temps'[d] = temps[d]
      PROVE  PutsAreWhole'
  <2> DEFINE call == Answered(calls[c], ok, save, what)
  <2>1. /\ \/ call.at = "answered" /\ call.awaited
           \/ call.kind = "idle" /\ call.at = "idle"
        /\ (call.kind \in {"list", "get"} => call.awaited)
    BY DEF Answered, Idle, TypeOK, Call
  <2>2. calls' = [calls EXCEPT ![c] = call]
    BY <1>3 DEF Answer
  <2> HIDE DEF call
  <2> QED BY <1>3, <2>1, <2>2, PutsStay
<1>4. CASE UNCHANGED <<calls, temps>>
  BY <1>4 DEF PutsAreWhole
<1>5. CASE SwitchTab \/ Type \/ UNCHANGED vars
  BY <1>4, <1>5 DEF SwitchTab, Type, vars, disk
<1>6. CASE TimerFires
  BY <1>0, <1>4, <1>6 DEF TimerFires, disk
<1>7. CASE Crash
  <2>1. \A c \in Calls : calls'[c] \in {calls[c], Idle}
                         /\ (calls'[c] # Idle => calls[c].at = "answered")
    BY <1>7 DEF Crash
  <2> QED BY <2>1 DEF PutsAreWhole, Idle
<1>8. CASE \E c \in Calls, s \in Saves : SelectSave(c, s)
  BY <1>1, <1>8 DEF SelectSave
<1>9. ASSUME NEW c \in Calls,
             OpenSidebar(c) \/ ClickSave(c) \/ Arrives(c) \/ FetchThrows(c)
      PROVE  PutsAreWhole'
  <2>1. CASE OpenSidebar(c)
    <3>1. /\ Sent("list", None, {}).kind = "list" /\ Sent("list", None, {}).awaited
          /\ Sent("list", None, {}).at = "sent"
      BY DEF Sent
    <3> QED BY <2>1, <3>1, PutsStay DEF OpenSidebar, Start, disk
  <2>2. CASE ClickSave(c)
    BY <1>0, <2>2 DEF ClickSave
  <2>3. CASE ListArrives(c)
    BY <1>1, <2>3 DEF ListArrives
  <2>4. CASE ListFails(c) \/ LoadArrives(c) \/ PutArrives(c)
    BY <1>2, <2>4 DEF ListFails, LoadArrives, PutArrives, End, disk
  <2>5. CASE FetchThrows(c)
    <3>1. CASE End(c)
      BY <1>2, <2>5, <3>1 DEF FetchThrows, End, disk
    <3>2. CASE /\ calls[c].kind = "put" /\ calls[c].at # "answered"
               /\ calls' = [calls EXCEPT ![c].awaited = FALSE]
      BY <2>5, <3>2 DEF FetchThrows, disk, PutsAreWhole, TypeOK, Call
    <3> QED BY <2>5, <3>1, <3>2 DEF FetchThrows
  <2> QED BY <1>9, <2>1, <2>2, <2>3, <2>4, <2>5 DEF Arrives
<1>10. ASSUME NEW c \in Calls, Handle(c)
       PROVE  PutsAreWhole'
  <2>1. CASE ListSaves(c)
    BY <1>3, <2>1 DEF ListSaves, disk
  <2>2. CASE ReadJournal(c)
    BY <1>3, <2>2 DEF ReadJournal, disk
  <2>3. CASE ReadFails(c) \/ CreateFails(c)
    BY <1>3, <2>3 DEF ReadFails, CreateFails, AnswerWith, disk
  <2>4. CASE PutFails(c)
    <3>1. \A d \in Calls \ {c} : temps'[d] = temps[d]
      BY <2>4 DEF PutFails, TempOf, TypeOK
    <3> QED BY <1>3, <2>4, <3>1 DEF PutFails, AnswerWith
  <2>5. CASE Rename(c)
    <3>1. \A d \in Calls \ {c} : temps'[d] = temps[d]
      BY <2>5 DEF Rename, TempOf, TypeOK
    <3> QED BY <1>3, <2>5, <3>1 DEF Rename, AnswerWith
  <2>6. CASE CreateTemp(c)
    BY <2>6 DEF CreateTemp, TempOf, Asks, PutsAreWhole, TypeOK, Call
  <2>7. CASE WriteTemp(c)
    BY <2>7 DEF WriteTemp, TempOf, PutsAreWhole, TypeOK, Call
  <2> QED BY <1>10, <2>1, <2>2, <2>3, <2>4, <2>5, <2>6, <2>7 DEF Handle
<1> QED BY <1>5, <1>6, <1>7, <1>8, <1>9, <1>10 DEF Next, User

-----------------------------------------------------------------------------
(* Whose the passages are.                                                   *)

(* Nothing that was stale ceases to be.                                      *)
LEMMA StaleStays ==
  ASSUME TypeOK, Next, "stale" \notin mishaps'
  PROVE  "stale" \notin mishaps
<1>1. CASE mishaps \subseteq mishaps'
  BY <1>1
<1>2. mishaps \subseteq mishaps'
  <2>1. CASE UNCHANGED history
    BY <2>1 DEF history
  <2>2. CASE Fault
    BY <2>2 DEF Fault, Notes
  <2>3. CASE \E found : Notes(found)
    BY <2>3 DEF Notes
  <2> QED
    BY <2>1, <2>2, <2>3
    DEF Next, User, SwitchTab, Type, OpenSidebar, ClickSave, SelectSave,
        OnSaveChange, SaveJournal, TimerFires, Crash, Arrives, ListArrives,
        ListFails, LoadArrives, PutArrives, FetchThrows, Handle, ListSaves,
        ReadJournal, ReadFails, CreateTemp, CreateFails, WriteTemp, PutFails,
        Rename, Acts, ActsOnText, history
<1> QED BY <1>1, <1>2

(* A step that leaves the text and its save as they are, and changes one     *)
(* call, which is sorted thereafter.                                         *)
LEMMA SortedStays ==
  ASSUME TypeOK, Sorted, NEW c \in Calls, NEW call,
         calls' = [calls EXCEPT ![c] = call],
         UNCHANGED <<journal, home, current>>,
         fresh' = fresh /\ text' = text /\ (dirty' => dirty),
         call.kind = "put" /\ call.at # "answered" => Owned(home, call.text, call.save),
         call.kind = "get" => current \in Saves,
         call.kind = "list" /\ call.at = "answered" /\ call.ok => call.save \in Saves,
         call.kind = "get" /\ call.at = "sent" => call.save = current,
         call.kind = "get" /\ call.at = "answered" /\ call.ok =>
           Owned(home, call.text, current)
  PROVE  Sorted'
<1>1. \A d \in Calls : calls'[d] = IF d = c THEN call ELSE calls[d]
  BY DEF TypeOK
<1>2. \A d \in Calls : CallIsSorted(d)'
  BY <1>1 DEF Sorted, CallIsSorted
<1> QED BY <1>2 DEF Sorted

(* What is typed belongs to the current save, and all that was there before  *)
(* keeps its home.                                                           *)
LEMMA TypeSorts ==
  ASSUME TypeOK, Sorted, Type, "stale" \notin mishaps'
  PROVE  Sorted'
<1>1. fresh
  BY Conditions, ActsType DEF Type, ActsOnText
<1>2. /\ home' = Append(home, current) /\ home \in Seq(Saves \cup {None})
      /\ text' = text \cup {Len(home) + 1} /\ UNCHANGED <<journal, calls, current, fresh>>
  BY DEF Type, TypeOK, disk
<1>3. /\ DOMAIN home = 1..Len(home) /\ Len(home) \in Nat
      /\ DOMAIN home' = 1..(Len(home) + 1)
      /\ \A e \in 1..Len(home) : home'[e] = home[e]
      /\ home'[Len(home) + 1] = current
  BY <1>2, LenProperties, AppendProperties
<1>4. \A S, s : Owned(home, S, s) => Owned(home', S, s)
  BY <1>3 DEF Owned
<1>5. Len(home) + 1 \notin Saves
  BY <1>3, SavesAssumption
<1>6. Owned(home', text', current')
  <2>1. Owned(home', text, current)
    BY <1>1, <1>4 DEF Sorted
  <2> QED BY <1>2, <1>3, <1>5, <2>1 DEF Owned
<1>7. \A d \in Calls : CallIsSorted(d)'
  BY <1>2, <1>4 DEF Sorted, CallIsSorted
<1>8. current' \in Saves /\ fresh'
  BY <1>1, <1>2 DEF Sorted
<1> QED BY <1>2, <1>4, <1>6, <1>7, <1>8 DEF Sorted

(* Choosing a save asks for its text, while no other is asked for and        *)
(* nothing is unsaved, or when it is the save there is.                      *)
LEMMA OnSaveChangeSorts ==
  ASSUME TypeOK, Sorted, NEW c \in Calls, NEW s \in Saves, OnSaveChange(c, s),
         s = current \/ (~dirty /\ \A d \in Calls : calls[d].kind # "get")
  PROVE  Sorted'
<1> DEFINE call == IF tab = "journal" THEN Sent("get", AskedFor(s), {}) ELSE Idle
<1>2. /\ call.kind \in {"get", "idle"} /\ call.at # "answered"
      /\ (call.kind = "get" => call.save = s)
  BY DEF Sent, Idle, AskedFor
<1>3. /\ calls' = [calls EXCEPT ![c] = call] /\ current' = s
      /\ fresh' = (fresh /\ s = current) /\ UNCHANGED <<journal, home, text, dirty>>
  BY DEF OnSaveChange, disk
<1> HIDE DEF call
<1>4. \A d \in Calls : calls'[d] = IF d = c THEN call ELSE calls[d]
  BY <1>3 DEF TypeOK
<1>5. \A d \in Calls : CallIsSorted(d)'
  BY <1>2, <1>3, <1>4 DEF Sorted, CallIsSorted
<1>6. (fresh' => current' \in Saves /\ Owned(home', text', current')) /\ (dirty' => fresh')
  BY <1>3 DEF Sorted
<1> QED BY <1>3, <1>5, <1>6 DEF Sorted

(* What is saved is fresh.                                                   *)
LEMMA SaveJournalSorts ==
  ASSUME TypeOK, Sorted, NEW c \in Calls, SaveJournal(c), fresh
  PROVE  Sorted'
<1> DEFINE call == Sent("put", current, text)
<1>2. call.kind = "put" /\ call.text = text /\ call.save = current
  BY DEF Sent
<1>3. /\ calls' = [calls EXCEPT ![c] = call]
      /\ UNCHANGED <<journal, home, current, text, dirty, fresh>>
  BY DEF SaveJournal, Start, disk
<1>4. Owned(home, text, current)
  BY DEF Sorted
<1> HIDE DEF call
<1> QED BY <1>2, <1>3, <1>4, SortedStays

(* The handlers and what they answer keep it.                                *)
LEMMA HandleSorts ==
  ASSUME TypeOK, PutsAreWhole, Sorted, NEW c \in Calls, Handle(c)
  PROVE  Sorted'
<1>0. UNCHANGED <<home, current, text, dirty, fresh>>
  BY DEF Handle, ListSaves, ReadJournal, ReadFails, CreateTemp, CreateFails,
         WriteTemp, PutFails, Rename, page, history
<1>1. ASSUME NEW ok, NEW save, NEW what, Answer(c, ok, save, what),
             UNCHANGED journal,
             calls[c].kind = "get" /\ ok => Owned(home, what, current),
             calls[c].kind = "list" /\ ok => save \in Saves
      PROVE  Sorted'
  <2> DEFINE call == Answered(calls[c], ok, save, what)
  <2>1. \/ /\ call.at = "answered" /\ call.kind = calls[c].kind
           /\ call.text = what /\ call.ok = ok /\ call.save = save
        \/ call.kind = "idle"
    BY DEF Answered, Idle, TypeOK, Call
  <2>2. calls' = [calls EXCEPT ![c] = call]
    BY <1>1 DEF Answer
  <2>3. calls[c].kind = "get" => current \in Saves
    BY DEF Sorted, CallIsSorted
  <2> HIDE DEF call
  <2> QED BY <1>0, <1>1, <2>1, <2>2, <2>3, SortedStays
<1>2. CASE ListSaves(c)
  BY <1>1, <1>2 DEF ListSaves, Asks, disk
<1>3. CASE ReadJournal(c)
  <2>1. calls[c].kind = "get" /\ calls[c].save = current /\ current \in Saves
    BY <1>3 DEF ReadJournal, Asks, Sorted, CallIsSorted
  <2>2. Owned(home, journal[calls[c].save], current)
    BY <2>1 DEF Sorted
  <2> QED BY <1>1, <1>3, <2>1, <2>2 DEF ReadJournal, disk
<1>4. CASE ReadFails(c) \/ CreateFails(c) \/ PutFails(c)
  <2>1. UNCHANGED journal /\ AnswerWith(c, FALSE)
    BY <1>4 DEF ReadFails, CreateFails, PutFails, disk
  <2> QED BY <1>1, <2>1 DEF AnswerWith
<1>5. CASE CreateTemp(c) \/ WriteTemp(c)
  <2>1. \A d \in Calls : /\ calls'[d].kind = calls[d].kind
                         /\ calls'[d].save = calls[d].save
                         /\ calls'[d].text = calls[d].text
                         /\ calls'[d].ok = calls[d].ok
                         /\ (calls[d].kind # "put" => calls'[d].at = calls[d].at)
                         /\ (calls[d].at = "answered" => calls'[d].at = "answered")
    <3>1. PICK l \in {"created", "written"} : calls' = [calls EXCEPT ![c].at = l]
      BY <1>5 DEF CreateTemp, WriteTemp
    <3>2. calls[c].kind = "put" /\ calls[c].at # "answered"
      BY <1>5 DEF CreateTemp, WriteTemp, Asks, PutsAreWhole
    <3>3. calls \in [Calls -> Call]
      BY DEF TypeOK
    <3> QED BY ONLY <3>1, <3>2, <3>3 DEF Call
  <2>2. UNCHANGED journal
    BY <1>5 DEF CreateTemp, WriteTemp
  <2>3. \A d \in Calls : CallIsSorted(d)'
    <3> SUFFICES ASSUME NEW d \in Calls PROVE CallIsSorted(d)'
      OBVIOUS
    <3>1. CallIsSorted(d) /\ (calls'[d].kind = "put" => calls[d].kind = "put")
      BY <2>1 DEF Sorted
    <3>2. /\ calls'[d].kind = "put" /\ calls'[d].at # "answered" =>
               calls[d].kind = "put" /\ calls[d].at # "answered"
          /\ calls'[d].kind = calls[d].kind
      BY <2>1
    <3> QED BY <1>0, <2>1, <3>1, <3>2 DEF CallIsSorted
  <2> QED BY <1>0, <2>2, <2>3 DEF Sorted
<1>6. CASE Rename(c)
  <2>1. calls[c].kind = "put" /\ calls[c].save \in Saves /\ temps[c] = {calls[c].text}
    BY <1>6 DEF Rename, PutsAreWhole
  <2>2. journal' = [journal EXCEPT ![calls[c].save] = calls[c].text]
    BY <1>6, <2>1 DEF Rename, TempOf
  <2>3. \A s \in Saves : Owned(home, journal'[s], s)
    <3>1. Owned(home, calls[c].text, calls[c].save)
      BY <1>6, <2>1 DEF Rename, Sorted, CallIsSorted
    <3> QED BY <2>1, <2>2, <3>1 DEF Sorted, TypeOK
  <2>4. \A d \in Calls :
          IF d = c THEN \/ calls'[d].at = "answered" /\ calls'[d].kind = "put"
                        \/ calls'[d].kind = "idle"
                   ELSE calls'[d] = calls[d]
    BY <1>6, <2>1 DEF Rename, AnswerWith, Answer, Answered, Idle, TypeOK, Call
  <2>5. \A d \in Calls : CallIsSorted(d)'
    BY <1>0, <2>1, <2>4 DEF Sorted, CallIsSorted
  <2> QED BY <1>0, <2>3, <2>5 DEF Sorted
<1> QED BY <1>2, <1>3, <1>4, <1>5, <1>6 DEF Handle

(* Every step keeps it, unless it is stale.                                  *)
LEMMA SortedStep ==
  ASSUME TypeOK, PutsAreWhole, Sorted, [Next]_vars, "stale" \notin mishaps'
  PROVE  Sorted'
<1>1. ASSUME NEW c \in Calls, calls' = [calls EXCEPT ![c] = Idle],
             UNCHANGED <<journal, home, current, text, fresh>>, dirty' => dirty
      PROVE  Sorted'
  <2>1. Idle.kind = "idle"
    BY DEF Idle
  <2> QED BY <1>1, <2>1, SortedStays
<1>2. ASSUME UNCHANGED <<journal, calls, home, current, text, dirty, fresh>>
      PROVE  Sorted'
  BY <1>2 DEF Sorted, CallIsSorted, Owned
<1>3. CASE SwitchTab \/ UNCHANGED vars
  BY <1>2, <1>3 DEF SwitchTab, vars, disk, page, history
<1>4. CASE Type
  BY <1>4, TypeSorts
<1>5. CASE TimerFires
  <2>1. CASE dirty /\ \E c \in Calls : SaveJournal(c)
    BY <2>1, SaveJournalSorts DEF Sorted
  <2> QED BY <1>2, <1>5, <2>1 DEF TimerFires, Unsaved, disk, history
<1>6. CASE Crash
  <2>1. UNCHANGED <<journal, home, current, text, dirty, fresh>>
    BY <1>6 DEF Crash, page
  <2>2. \A c \in Calls : calls'[c] = calls[c] \/ calls'[c].kind = "idle"
    BY <1>6 DEF Crash, Idle
  <2>3. \A c \in Calls : CallIsSorted(c)'
    BY <2>1, <2>2 DEF Sorted, CallIsSorted
  <2> QED BY <2>1, <2>3 DEF Sorted
<1>7. ASSUME NEW c \in Calls, NEW s \in Saves, SelectSave(c, s)
      PROVE  Sorted'
  <2>1. ~(dirty \/ InFlight("get"))
    BY <1>7, Conditions, ActsType DEF SelectSave
  <2>2. \A d \in Calls : calls[d].kind # "get"
    BY <2>1 DEF InFlight, PutsAreWhole
  <2> QED BY <1>7, <2>1, <2>2, OnSaveChangeSorts DEF SelectSave
<1>8. ASSUME NEW c \in Calls,
             OpenSidebar(c) \/ ClickSave(c) \/ Arrives(c) \/ FetchThrows(c)
      PROVE  Sorted'
  <2>1. CASE OpenSidebar(c)
    <3> DEFINE call == Sent("list", None, {})
    <3>1. call.kind = "list" /\ call.at = "sent"
      BY DEF Sent
    <3>2. /\ calls' = [calls EXCEPT ![c] = call]
          /\ UNCHANGED <<journal, home, current, text, dirty, fresh>>
      BY <2>1 DEF OpenSidebar, Start, disk, page
    <3> HIDE DEF call
    <3> QED BY <3>1, <3>2, SortedStays
  <2>2. CASE ClickSave(c)
    <3>1. fresh
      BY <2>2, Conditions, ActsType DEF ClickSave, ActsOnText
    <3> QED BY <2>2, <3>1, SaveJournalSorts DEF ClickSave
  <2>3. CASE ListArrives(c)
    <3>1. CASE current = None
      <4>1. ~dirty /\ \A d \in Calls : calls[d].kind # "get"
        BY <3>1, NoneAssumption DEF Sorted, CallIsSorted
      <4>2. calls[c].save \in Saves
        BY <2>3 DEF ListArrives, Sorted, CallIsSorted
      <4> QED BY <2>3, <3>1, <4>1, <4>2, OnSaveChangeSorts DEF ListArrives
    <3>2. CASE current # None
      <4>1. current \in Saves
        BY <3>2 DEF TypeOK
      <4> QED BY <2>3, <3>2, <4>1, OnSaveChangeSorts DEF ListArrives
    <3> QED BY <3>1, <3>2
  <2>4. CASE ListFails(c) \/ PutArrives(c)
    <3>1. /\ calls' = [calls EXCEPT ![c] = Idle]
          /\ UNCHANGED <<journal, home, current, text, fresh>>
      BY <2>4 DEF ListFails, PutArrives, End, disk, page, history
    <3>2. dirty' => dirty
      BY <2>4 DEF ListFails, PutArrives, DirtyAfter, page
    <3> QED BY <1>1, <3>1, <3>2
  <2>6. CASE FetchThrows(c)
    <3>1. UNCHANGED <<journal, home, current, text, dirty, fresh>>
      BY <2>6 DEF FetchThrows, disk, page
    <3>2. CASE End(c)
      BY <1>1, <3>1, <3>2 DEF End
    <3>3. CASE calls' = [calls EXCEPT ![c].awaited = FALSE]
      <4> DEFINE call == [calls[c] EXCEPT !.awaited = FALSE]
      <4>1. calls' = [calls EXCEPT ![c] = call]
        BY <3>3
      <4>2. /\ call.kind = calls[c].kind /\ call.at = calls[c].at
            /\ call.save = calls[c].save /\ call.text = calls[c].text
            /\ call.ok = calls[c].ok
        BY DEF TypeOK, Call
      <4>3. CallIsSorted(c)
        BY DEF Sorted
      <4> HIDE DEF call
      <4> QED BY <3>1, <4>1, <4>2, <4>3, SortedStays DEF CallIsSorted
    <3> QED BY <2>6, <3>2, <3>3 DEF FetchThrows
  <2>5. CASE LoadArrives(c)
    <3>0. calls[c].kind = "get" => current \in Saves
      BY DEF Sorted, CallIsSorted
    <3>1. /\ calls' = [calls EXCEPT ![c] = Idle] /\ UNCHANGED <<journal, home, current>>
          /\ (fresh' => current \in Saves /\ Owned(home, text', current)) /\ ~dirty'
      BY <2>5, <3>0 DEF LoadArrives, End, disk, Sorted, CallIsSorted
    <3>2. \A d \in Calls : calls'[d] = calls[d] \/ calls'[d].kind = "idle"
      BY <3>1 DEF TypeOK, Idle
    <3>3. \A d \in Calls : CallIsSorted(d)'
      BY <3>1, <3>2 DEF Sorted, CallIsSorted
    <3> QED BY <3>1, <3>3 DEF Sorted
  <2> QED BY <1>8, <2>1, <2>2, <2>3, <2>4, <2>5, <2>6 DEF Arrives
<1>9. ASSUME NEW c \in Calls, Handle(c)
      PROVE  Sorted'
  BY <1>9, HandleSorts
<1> QED BY <1>3, <1>4, <1>5, <1>6, <1>7, <1>8, <1>9 DEF Next, User

-----------------------------------------------------------------------------
(* Every step keeps the invariant.                                           *)
LEMMA StepKeepsInv == Inv /\ [Next]_vars => Inv'
<1> SUFFICES ASSUME Inv, [Next]_vars PROVE Inv'
  OBVIOUS
<1>1. TypeOK' /\ PutsAreWhole'
  BY TypeStep, PutsStep DEF Inv
<1>2. ASSUME "stale" \notin mishaps' PROVE Sorted'
  <2>1. "stale" \notin mishaps
    BY <1>2, StaleStays DEF Inv, vars, history
  <2> QED BY <1>2, <2>1, SortedStep DEF Inv
<1> QED BY <1>1, <1>2 DEF Inv

LEMMA InvHolds == Spec => []Inv
BY InitHolds, StepKeepsInv, PTL DEF Spec

(* Every variable of the page, its fetches and the files keeps its type.     *)
THEOREM JournalTypeCorrect == Spec => []TypeOK
<1>1. Inv => TypeOK
  BY DEF Inv
<1> QED BY <1>1, InvHolds, PTL

(* No text gets into the journal of another save, whatever overlaps and      *)
(* whenever the timer fires, unless the user acts on a text that is not      *)
(* there yet or chooses another save while one is loading or unsaved.        *)
THEOREM JournalsAreApart == Spec => []NoMixing
<1>1. Inv => NoMixing
  BY DEF Inv, NoMixing, Sorted, Owned, HomeOf
<1> QED BY <1>1, InvHolds, PTL

(* What a PUT puts in place is what it was sent, with any number of others   *)
(* of the same journal beside it.                                            *)
THEOREM PutsStoreTheirText == Spec => StoredAsSent
<1>1. Inv /\ [Next]_vars =>
        [\A c \in Calls : Rename(c) => journal'[calls[c].save] = calls[c].text]_vars
  <2> SUFFICES ASSUME Inv, NEW c \in Calls, Rename(c)
               PROVE  journal'[calls[c].save] = calls[c].text
    OBVIOUS
  <2>1. calls[c].save \in Saves /\ temps[c] = {calls[c].text}
    BY DEF Inv, PutsAreWhole, Rename
  <2> QED BY <2>1 DEF Inv, TypeOK, Rename, TempOf
<1> QED BY <1>1, InvHolds, PTL DEF Spec, StoredAsSent

-----------------------------------------------------------------------------
(* Nothing is lost.                                                          *)

(* The text has every passage of this save.                                  *)
Has(h, passages, s) ==
  \A e \in Saves \cup DOMAIN h :
    (IF e \in Saves THEN e ELSE h[e]) = s => e \in passages

(* Each passage is in its file or unsaved on the page.                       *)
Safe ==
  \A e \in Made : Stored(e) \/ (dirty /\ e \in text /\ current = HomeOf(e))

(* What replaces a file has all that was in it; what it lacks is unsaved on  *)
(* the page.  While something is unsaved, a PUT that is awaited is that of   *)
(* the text shown, and one that succeeded has stored it.                     *)
Lacks(c, e) == dirty /\ e \in text /\ calls[c].save = current

PutHas(c) ==
  calls[c].kind = "put" =>
    /\ calls[c].at # "answered" =>
         \A e \in Made : HomeOf(e) = calls[c].save => e \in calls[c].text \/ Lacks(c, e)
    /\ calls[c].awaited /\ dirty =>
         /\ current \in Saves
         /\ calls[c].at # "answered" => calls[c].text = text /\ calls[c].save = current
         /\ calls[c].at = "answered" /\ calls[c].ok => text \subseteq journal[current]

(* While a list or a text is loading, nothing is unsaved; the text has all   *)
(* of the journal.                                                           *)
GetHas(c) ==
  /\ calls[c].kind \in {"list", "get"} => ~dirty
  /\ calls[c].kind = "get" /\ calls[c].at = "answered" /\ calls[c].ok =>
       Has(home, calls[c].text, current)

OneAtATime(kinds) ==
  \A c, d \in Calls : calls[c].kind \in kinds /\ calls[d].kind \in kinds => c = d

(* What no step breaks that waits for the others.                            *)
Kept ==
  /\ Safe
  /\ fresh => Has(home, text, current)
  /\ \A c \in Calls : PutHas(c) /\ GetHas(c)
  /\ OneAtATime({"put"}) /\ OneAtATime({"list", "get"})
  /\ timer => ~InFlight("put")

Patient == hasty = 0 /\ "overtaking" \notin mishaps
KeptInv == Patient => "stale" \notin mishaps /\ Kept

(* At the start each file has itself as its passage.                         *)
LEMMA KeptInit == Init => KeptInv
<1> SUFFICES ASSUME Init PROVE "stale" \notin mishaps /\ Kept
  BY DEF KeptInv
<1>1. Safe
  BY DEF Init, Safe, Made, Stored, HomeOf
<1>2. \A c \in Calls : calls[c].kind = "idle"
  BY DEF Init, Idle
<1> QED BY <1>1, <1>2 DEF Init, Kept, PutHas, GetHas, OneAtATime

(* An act that is not hasty comes after none that was, and is not stale.     *)
LEMMA ActsPatient ==
  ASSUME TypeOK, NEW isStale \in BOOLEAN, NEW isHasty \in BOOLEAN,
         NEW found \in SUBSET Mishaps, Acts(isStale, isHasty, found), hasty' = 0
  PROVE  hasty = 0 /\ ~isStale /\ ~isHasty /\ mishaps' = mishaps \cup found
<1>1. hasty \in Nat
  BY DEF TypeOK
<1>2. ~isStale /\ ~isHasty
  BY <1>1 DEF Acts
<1>3. mishaps' = mishaps \cup found \cup {m \in {"stale"} : isStale}
  BY DEF Acts, Notes
<1> QED BY <1>1, <1>2, <1>3 DEF Acts

LEMMA HastyStays ==
  ASSUME TypeOK, [Next]_vars, Patient'
  PROVE  Patient /\ ("stale" \in mishaps' => "stale" \in mishaps)
<1>0. hasty' = 0 /\ "overtaking" \notin mishaps' /\ hasty \in Nat
  BY DEF Patient, TypeOK
<1>1. CASE UNCHANGED history
  BY <1>0, <1>1 DEF history, Patient
<1>2. CASE Fault
  BY <1>0, <1>2 DEF Fault, Notes, Patient
<1>3. CASE Type \/ \E c \in Calls : ClickSave(c)
  <2>1. PICK found \in SUBSET Mishaps : Acts(~fresh, Loading \/ InFlight("put"), found)
                                       /\ found \subseteq {"overtaking"}
    BY <1>3, Conditions DEF Type, ClickSave, ActsOnText, Overtaking
  <2>2. hasty = 0 /\ mishaps' = mishaps \cup found
    BY ONLY <1>0, <2>1, TypeOK, Conditions, ActsPatient
  <2> QED BY <1>0, <2>1, <2>2 DEF Patient
<1>4. CASE UNCHANGED <<hasty, mishaps>>
  BY <1>0, <1>4 DEF Patient
<1>5. CASE \E c \in Calls : OpenSidebar(c)
  <2>1. Acts(FALSE, dirty \/ Loading, {})
    BY <1>5 DEF OpenSidebar
  <2>2. hasty = 0 /\ mishaps' = mishaps \cup {}
    BY ONLY <1>0, <2>1, TypeOK, Conditions, ActsPatient
  <2> QED BY <1>0, <2>2 DEF Patient
<1>6. CASE \E c \in Calls, s \in Saves : SelectSave(c, s)
  <2>1. Acts(dirty \/ InFlight("get"), Loading, {})
    BY <1>6 DEF SelectSave
  <2>2. hasty = 0 /\ mishaps' = mishaps \cup {}
    BY ONLY <1>0, <2>1, TypeOK, Conditions, ActsPatient
  <2> QED BY <1>0, <2>2 DEF Patient
<1>7. CASE Notes(Overtaking) /\ UNCHANGED hasty
  BY <1>0, <1>7 DEF Notes, Overtaking, Patient
<1>8. CASE SwitchTab \/ TimerFires \/ Crash \/ UNCHANGED vars
  BY <1>1, <1>2, <1>7, <1>8 DEF SwitchTab, TimerFires, Crash, history, vars
<1>9. CASE \E c \in Calls : Arrives(c) \/ FetchThrows(c)
  BY <1>1, <1>2, <1>4, <1>9
  DEF Arrives, ListArrives, ListFails, LoadArrives, PutArrives, FetchThrows, history
<1>10. CASE \E c \in Calls : Handle(c)
  BY <1>1, <1>2, <1>10
  DEF Handle, ListSaves, ReadJournal, ReadFails, CreateTemp, CreateFails, WriteTemp,
      PutFails, Rename, history
<1> QED BY <1>3, <1>5, <1>6, <1>8, <1>9, <1>10 DEF Next, User

(* What an act that is not hasty waited for.                                 *)
LEMMA Waited ==
  ASSUME TypeOK, NEW found \in SUBSET Mishaps, hasty' = 0
  PROVE  /\ ActsOnText(found) => fresh /\ ~Loading /\ ~InFlight("put")
         /\ Acts(FALSE, dirty \/ Loading, found) => ~dirty /\ ~Loading
         /\ Acts(dirty \/ InFlight("get"), Loading, found) => ~dirty /\ ~Loading
<1>1. ActsOnText(found) => fresh /\ ~(Loading \/ InFlight("put"))
  BY Conditions, ActsPatient DEF ActsOnText
<1>2. Acts(FALSE, dirty \/ Loading, found) => ~(dirty \/ Loading)
  BY Conditions, ActsPatient
<1>3. Acts(dirty \/ InFlight("get"), Loading, found) =>
        ~(dirty \/ InFlight("get")) /\ ~Loading
  BY Conditions, ActsPatient
<1> QED BY <1>1, <1>2, <1>3

(* Nothing is loading then.                                                  *)
LEMMA NotLoading ==
  ASSUME PutsAreWhole, ~Loading, NEW d \in Calls
  PROVE  calls[d].kind \notin {"list", "get"}
BY DEF PutsAreWhole, Loading, InFlight

(* A save that is sent overtakes no other.                                   *)
LEMMA NothingOvertaken ==
  ASSUME Overtaking \subseteq mishaps', Patient', ~InFlight("put"), NEW d \in Calls
  PROVE  calls[d].kind # "put"
<1>1. ~Abandoned
  BY DEF Overtaking, Patient
<1> QED BY <1>1 DEF Abandoned, InFlight

(* A step that changes one call and neither a file nor the text: the call    *)
(* still has what it must have, and it is of no new kind.                    *)
LEMMA KeptStays ==
  ASSUME TypeOK, Kept, NEW c \in Calls, NEW call,
         calls' = [calls EXCEPT ![c] = call],
         UNCHANGED <<journal, home, current, text, dirty, fresh, timer>>,
         call.kind = calls[c].kind \/ call.kind \notin {"put", "list", "get"},
         call.awaited => call.kind # "put" \/ calls[c].awaited,
         PutHas(c)', GetHas(c)'
  PROVE  Kept'
<1>1. \A d \in Calls : calls'[d] = IF d = c THEN call ELSE calls[d]
  BY DEF TypeOK
<1>2. \A d \in Calls : PutHas(d)' /\ GetHas(d)'
  BY <1>1 DEF Kept, PutHas, GetHas, Lacks, Made, HomeOf
<1>3. OneAtATime({"put"})' /\ OneAtATime({"list", "get"})'
  BY <1>1 DEF Kept, OneAtATime
<1>4. Safe'
  BY DEF Kept, Safe, Made, Stored, HomeOf
<1>5. timer' => ~InFlight("put")'
  BY <1>1 DEF Kept, InFlight
<1> QED BY <1>2, <1>3, <1>4, <1>5 DEF Kept

(* The user types on, at the text of the current save.                       *)
LEMMA TypeKeeps ==
  ASSUME TypeOK, PutsAreWhole, Sorted, Kept, Type, hasty' = 0
  PROVE  Kept'
<1>1. fresh /\ ~Loading /\ ~InFlight("put")
  BY Conditions, Waited DEF Type
<1>2. /\ home' = Append(home, current) /\ home \in Seq(Saves \cup {None})
      /\ text' = text \cup {Len(home) + 1} /\ dirty'
      /\ UNCHANGED <<journal, calls, current, fresh>>
  BY DEF Type, TypeOK, disk
<1>3. /\ DOMAIN home = 1..Len(home) /\ Len(home) \in Nat
      /\ DOMAIN home' = 1..(Len(home) + 1)
      /\ \A e \in 1..Len(home) : home'[e] = home[e]
      /\ home'[Len(home) + 1] = current
  BY <1>2, LenProperties, AppendProperties
<1>4. DOMAIN home' = DOMAIN home \cup {Len(home) + 1}
  BY <1>3
<1>5. \A e \in DOMAIN home : home'[e] = home[e]
  BY <1>3
<1>6. Len(home) + 1 \notin Saves
  BY <1>3, SavesAssumption
<1>7. Has(home', text', current')
  <2>1. Has(home, text, current)
    BY <1>1 DEF Kept
  <2> QED BY ONLY <1>2, <1>4, <1>5, <2>1 DEF Has
<1>8. \A d \in Calls : calls[d].kind \notin {"list", "get"}
  BY <1>1, NotLoading
<1>9. \A d \in Calls : PutHas(d)' /\ GetHas(d)'
  <2> SUFFICES ASSUME NEW d \in Calls, calls[d].kind = "put" PROVE PutHas(d)'
    BY <1>2, <1>8 DEF PutHas, GetHas
  <2>1. ~calls[d].awaited
    BY <1>1 DEF InFlight
  <2>2. ASSUME calls[d].at # "answered", NEW e \in Saves \cup DOMAIN home',
               HomeOf(e)' = calls[d].save
        PROVE  e \in calls[d].text \/ Lacks(d, e)'
    <3>1. CASE e \in Saves \cup DOMAIN home
      <4>1. HomeOf(e)' = HomeOf(e)
        BY <1>5, <3>1 DEF HomeOf
      <4>2. e \in calls[d].text \/ Lacks(d, e)
        BY <2>2, <3>1, <4>1 DEF Kept, PutHas, Made
      <4> QED BY <1>2, <4>2 DEF Lacks
    <3>2. CASE e = Len(home) + 1
      <4>1. calls[d].save = current
        BY <1>3, <1>6, <2>2, <3>2 DEF HomeOf
      <4> QED BY <1>2, <3>2, <4>1 DEF Lacks
    <3> QED BY <1>4, <2>2, <3>1, <3>2
  <2> QED BY <1>2, <2>1, <2>2 DEF PutHas, Made
<1>10. OneAtATime({"put"})' /\ OneAtATime({"list", "get"})'
  BY <1>2 DEF Kept, OneAtATime
<1>12. ~InFlight("put")'
  BY <1>1, <1>2 DEF InFlight
<1>11. Safe'
  <2> SUFFICES ASSUME NEW e \in Saves \cup DOMAIN home'
               PROVE  Stored(e)' \/ (dirty' /\ e \in text' /\ current' = HomeOf(e)')
    BY DEF Safe, Made
  <2>1. CASE e \in Saves \cup DOMAIN home
    <3>1. HomeOf(e)' = HomeOf(e)
      BY <1>5, <2>1 DEF HomeOf
    <3>2. Stored(e) \/ (dirty /\ e \in text /\ current = HomeOf(e))
      BY <2>1 DEF Kept, Safe, Made
    <3> QED BY <1>2, <3>1, <3>2 DEF Stored
  <2>2. CASE e = Len(home) + 1
    BY <1>2, <1>3, <1>6, <2>2 DEF HomeOf
  <2> QED BY <1>4, <2>1, <2>2
<1> QED BY <1>2, <1>7, <1>9, <1>10, <1>11, <1>12 DEF Kept

(* A save is chosen when nothing is unsaved and no other call loads.         *)
LEMMA OnSaveChangeKeeps ==
  ASSUME TypeOK, Sorted, Kept, NEW c \in Calls, NEW s, OnSaveChange(c, s), ~dirty,
         calls[c].kind # "put",
         \A d \in Calls \ {c} : calls[d].kind \notin {"list", "get"}
  PROVE  Kept'
<1> DEFINE call == IF tab = "journal" THEN Sent("get", AskedFor(s), {}) ELSE Idle
<1>2. call.kind \in {"get", "idle"} /\ call.at # "answered"
  BY DEF Sent, Idle, AskedFor
<1>3. /\ calls' = [calls EXCEPT ![c] = call] /\ fresh' = (fresh /\ s = current)
      /\ current' = s /\ UNCHANGED <<journal, home, text, dirty, timer>>
  BY DEF OnSaveChange, disk
<1> HIDE DEF call
<1>4. \A d \in Calls : calls'[d] = IF d = c THEN call ELSE calls[d]
  BY <1>3 DEF TypeOK
<1>5. \A d \in Calls : PutHas(d)' /\ GetHas(d)'
  BY <1>2, <1>3, <1>4 DEF Kept, PutHas, GetHas, Lacks, Made, HomeOf
<1>6. OneAtATime({"put"})' /\ OneAtATime({"list", "get"})'
  BY <1>2, <1>4 DEF Kept, OneAtATime
<1>7. Safe'
  BY <1>3 DEF Kept, Safe, Made, Stored, HomeOf
<1>8. fresh' => Has(home', text', current')
  BY <1>3 DEF Kept
<1>9. timer' => ~InFlight("put")'
  BY <1>2, <1>3, <1>4 DEF Kept, InFlight
<1> QED BY <1>5, <1>6, <1>7, <1>8, <1>9 DEF Kept

(* The text of the current save is sent, with all that is in it, while no    *)
(* other is being saved and nothing is loading.                              *)
LEMMA SaveJournalKeeps ==
  ASSUME TypeOK, Kept, NEW c \in Calls, SaveJournal(c), fresh,
         \A d \in Calls : calls[d].kind # "put"
  PROVE  Kept'
<1> DEFINE call == Sent("put", current, text)
<1>2. /\ call.kind = "put" /\ call.text = text /\ call.save = current
      /\ call.at = "sent"
  BY DEF Sent
<1>3. /\ calls' = [calls EXCEPT ![c] = call] /\ current \in Saves /\ ~timer'
      /\ UNCHANGED <<journal, home, current, text, dirty, fresh>>
  BY DEF SaveJournal, Start, disk, TypeOK
<1>4. Has(home, text, current)
  BY DEF Kept
<1> HIDE DEF call
<1>5. \A d \in Calls : calls'[d] = IF d = c THEN call ELSE calls[d]
  BY <1>3 DEF TypeOK
<1>9. \A e \in Made : HomeOf(e) = current => e \in text
  BY <1>4 DEF Has, Made, HomeOf
<1>6. \A d \in Calls : PutHas(d)' /\ GetHas(d)'
  <2>1. PutHas(c)' /\ GetHas(c)'
    BY <1>2, <1>3, <1>5, <1>9 DEF PutHas, GetHas, Made, HomeOf
  <2>2. \A d \in Calls \ {c} : PutHas(d)' /\ GetHas(d)'
    BY <1>3, <1>5 DEF Kept, PutHas, GetHas
  <2> QED BY <2>1, <2>2
<1>7. OneAtATime({"put"})' /\ OneAtATime({"list", "get"})'
  BY <1>2, <1>5 DEF Kept, OneAtATime
<1>8. Safe'
  BY <1>3 DEF Kept, Safe, Made, Stored, HomeOf
<1> QED BY <1>3, <1>4, <1>6, <1>7, <1>8 DEF Kept

(* Answers arrive.  A load finds nothing unsaved; a save that succeeded has  *)
(* stored the text shown.                                                    *)
LEMMA LoadArrivesKeeps ==
  ASSUME TypeOK, Kept, NEW c \in Calls, LoadArrives(c)
  PROVE  Kept'
<1>1. /\ calls[c].kind = "get" /\ calls[c].at = "answered" /\ ~dirty
      /\ calls[c].ok => Has(home, calls[c].text, current)
  BY DEF Kept, GetHas, LoadArrives
<1>2. /\ calls' = [calls EXCEPT ![c] = Idle] /\ UNCHANGED <<journal, home, current>>
      /\ ~dirty' /\ (fresh' => Has(home, text', current)) /\ timer' = timer
  BY <1>1 DEF LoadArrives, End, disk
<1>3. \A d \in Calls : calls'[d] = IF d = c THEN Idle ELSE calls[d]
  BY <1>2 DEF TypeOK
<1>4. Idle.kind = "idle"
  BY DEF Idle
<1>6. \A d \in Calls : PutHas(d)' /\ GetHas(d)'
  BY <1>1, <1>2, <1>3, <1>4 DEF Kept, PutHas, GetHas, Lacks, Made, HomeOf
<1>7. OneAtATime({"put"})' /\ OneAtATime({"list", "get"})'
  BY <1>3, <1>4 DEF Kept, OneAtATime
<1>8. Safe'
  BY <1>1, <1>2 DEF Kept, Safe, Made, Stored, HomeOf
<1>9. timer' => ~InFlight("put")'
  BY <1>2, <1>3, <1>4 DEF Kept, InFlight
<1> QED BY <1>2, <1>6, <1>7, <1>8, <1>9 DEF Kept

LEMMA PutArrivesKeeps ==
  ASSUME TypeOK, PutsAreWhole, Kept, NEW c \in Calls, PutArrives(c)
  PROVE  Kept'
<1>1. /\ calls[c].kind = "put" /\ calls[c].at = "answered"
      /\ calls' = [calls EXCEPT ![c] = Idle] /\ dirty' = (dirty /\ ~calls[c].ok)
      /\ UNCHANGED <<journal, home, current, text, fresh, timer>> /\ calls[c].awaited
  BY DEF PutArrives, End, DirtyAfter, disk, history, PutsAreWhole
<1>2. \A d \in Calls : calls'[d] = IF d = c THEN Idle ELSE calls[d]
  BY <1>1 DEF TypeOK
<1>3. Idle.kind = "idle"
  BY DEF Idle
<1>8. \A d \in Calls : calls'[d].kind # "put"
  BY <1>1, <1>2, <1>3 DEF Kept, OneAtATime
<1>4. \A d \in Calls : PutHas(d)' /\ GetHas(d)'
  BY <1>1, <1>2, <1>3, <1>8 DEF Kept, PutHas, GetHas
<1>5. OneAtATime({"put"})' /\ OneAtATime({"list", "get"})'
  BY <1>2, <1>3 DEF Kept, OneAtATime
<1>6. dirty /\ calls[c].ok => current \in Saves /\ text \subseteq journal[current]
  BY <1>1 DEF Kept, PutHas
<1>7. Safe'
  BY <1>1, <1>6 DEF Kept, Safe, Made, Stored, HomeOf
<1>9. ~InFlight("put")'
  BY <1>8 DEF InFlight
<1> QED BY <1>1, <1>4, <1>5, <1>7, <1>9 DEF Kept

(* The handlers.  A GET finds nothing unsaved, so the file has every passage *)
(* of its save; a PUT replaces the file by a text that has them.             *)
LEMMA HandleKeeps ==
  ASSUME TypeOK, PutsAreWhole, Sorted, Kept, NEW c \in Calls, Handle(c)
  PROVE  Kept'
<1>0. UNCHANGED <<home, current, text, dirty, fresh, timer>>
  BY DEF Handle, ListSaves, ReadJournal, ReadFails, CreateTemp, CreateFails,
         WriteTemp, PutFails, Rename, page, history
<1>1. ASSUME NEW ok, NEW save, NEW what, Answer(c, ok, save, what),
             UNCHANGED journal,
             calls[c].kind = "put" => ok = FALSE,
             calls[c].kind = "get" /\ ok => Has(home, what, current)
      PROVE  Kept'
  <2> DEFINE call == Answered(calls[c], ok, save, what)
  <2>1. \/ /\ call.at = "answered" /\ call.kind = calls[c].kind
           /\ call.text = what /\ call.ok = ok
           /\ call.awaited = calls[c].awaited
        \/ call.kind = "idle" /\ ~call.awaited
    BY DEF Answered, Idle, TypeOK, Call
  <2>2. calls' = [calls EXCEPT ![c] = call]
    BY <1>1 DEF Answer
  <2> HIDE DEF call
  <2>3. calls'[c] = call
    BY <2>2 DEF TypeOK
  <2>4. PutHas(c)'
    BY <1>0, <1>1, <2>1, <2>3 DEF Kept, PutHas
  <2>5. GetHas(c)'
    BY <1>0, <1>1, <2>1, <2>3 DEF Kept, GetHas
  <2> QED BY <1>0, <1>1, <2>1, <2>2, <2>4, <2>5, KeptStays
<1>2. CASE ListSaves(c)
  BY <1>1, <1>2 DEF ListSaves, Asks, disk
<1>3. CASE ReadJournal(c)
  <2>1. calls[c].kind = "get" /\ calls[c].save = current /\ current \in Saves
    BY <1>3 DEF ReadJournal, Asks, Sorted, CallIsSorted
  <2>2. Has(home, journal[current], current)
    <3>1. ~dirty
      BY <2>1 DEF Kept, GetHas
    <3>2. \A e \in Made : Stored(e)
      BY <3>1 DEF Kept, Safe
    <3> QED BY <3>2 DEF Has, Made, Stored, HomeOf
  <2> QED BY <1>1, <1>3, <2>1, <2>2 DEF ReadJournal, disk
<1>4. CASE ReadFails(c) \/ CreateFails(c) \/ PutFails(c)
  <2>1. UNCHANGED journal /\ AnswerWith(c, FALSE)
    BY <1>4 DEF ReadFails, CreateFails, PutFails, disk
  <2> QED BY <1>1, <2>1 DEF AnswerWith
<1>5. CASE CreateTemp(c) \/ WriteTemp(c)
  <2>1. calls[c].kind = "put" /\ calls[c].at # "answered"
    BY <1>5 DEF CreateTemp, WriteTemp, Asks, PutsAreWhole
  <2>2. PICK l \in {"created", "written"} : calls' = [calls EXCEPT ![c].at = l]
    BY <1>5 DEF CreateTemp, WriteTemp
  <2> DEFINE call == [calls[c] EXCEPT !.at = l]
  <2>3. calls' = [calls EXCEPT ![c] = call] /\ calls'[c] = call
    BY <2>2 DEF TypeOK
  <2>4. /\ call.kind = calls[c].kind /\ call.save = calls[c].save
        /\ call.text = calls[c].text /\ call.at # "answered"
        /\ call.awaited = calls[c].awaited
    BY <2>2 DEF TypeOK, Call
  <2>5. UNCHANGED journal
    BY <1>5 DEF CreateTemp, WriteTemp
  <2> HIDE DEF call
  <2>6. PutHas(c)'
    BY <1>0, <2>1, <2>3, <2>4, <2>5 DEF Kept, PutHas, Lacks, Made, HomeOf
  <2>7. GetHas(c)'
    BY <2>1, <2>3, <2>4 DEF GetHas
  <2> QED BY <1>0, <2>3, <2>4, <2>5, <2>6, <2>7, KeptStays
<1>6. CASE Rename(c)
  <2>1. /\ calls[c].kind = "put" /\ calls[c].save \in Saves
        /\ temps[c] = {calls[c].text} /\ calls[c].at = "written"
    BY <1>6 DEF Rename, PutsAreWhole
  <2>2. journal' = [journal EXCEPT ![calls[c].save] = calls[c].text]
    BY <1>6, <2>1 DEF Rename, TempOf
  <2>3. \A s \in Saves : journal'[s] = IF s = calls[c].save THEN calls[c].text
                                       ELSE journal[s]
    BY <2>2 DEF TypeOK
  <2>4. /\ \/ /\ calls'[c].kind = "put" /\ calls'[c].at = "answered"
              /\ calls[c].awaited
           \/ calls'[c].kind = "idle"
        /\ \A d \in Calls \ {c} : calls'[d] = calls[d]
    BY <1>6, <2>1 DEF Rename, AnswerWith, Answer, Answered, Idle, TypeOK, Call
  <2>5. /\ \A e \in Made : HomeOf(e) = calls[c].save => e \in calls[c].text \/ Lacks(c, e)
        /\ calls[c].awaited /\ dirty =>
             current \in Saves /\ calls[c].text = text /\ calls[c].save = current
    BY <2>1 DEF Kept, PutHas
  <2>6. \A d \in Calls \ {c} : calls[d].kind # "put"
    BY <2>1 DEF Kept, OneAtATime
  <2>7. \A d \in Calls : PutHas(d)'
    BY <1>0, <2>3, <2>4, <2>5, <2>6 DEF PutHas
  <2>8. \A d \in Calls : GetHas(d)'
    BY <1>0, <2>4 DEF Kept, GetHas
  <2>9. OneAtATime({"put"})' /\ OneAtATime({"list", "get"})'
    BY <2>1, <2>4 DEF Kept, OneAtATime
  <2>11. timer' => ~InFlight("put")'
    BY <1>0, <2>1, <2>4, <2>6 DEF Kept, InFlight
  <2>10. Safe'
    <3> SUFFICES ASSUME NEW e \in Made
                 PROVE  Stored(e)' \/ (dirty' /\ e \in text' /\ current' = HomeOf(e)')
      BY <1>0 DEF Safe, Made
    <3>1. HomeOf(e)' = HomeOf(e)
      BY <1>0 DEF HomeOf
    <3>2. CASE Stored(e)
      <4>1. PICK s \in Saves : e \in journal[s] /\ HomeOf(e) = s
        BY <3>2 DEF Stored
      <4>2. s = calls[c].save => e \in calls[c].text \/ Lacks(c, e)
        BY <2>5, <4>1
      <4>3. CASE Lacks(c, e) /\ s = calls[c].save
        BY <1>0, <3>1, <4>1, <4>3 DEF Lacks
      <4>4. CASE ~(Lacks(c, e) /\ s = calls[c].save)
        <5>1. e \in journal'[s]
          BY <2>3, <4>1, <4>2, <4>4
        <5> QED BY <3>1, <4>1, <5>1 DEF Stored
      <4> QED BY <4>3, <4>4
    <3> QED BY <1>0, <3>1, <3>2 DEF Kept, Safe
  <2> QED BY <1>0, <2>7, <2>8, <2>9, <2>10, <2>11 DEF Kept
<1> QED BY <1>2, <1>3, <1>4, <1>5, <1>6 DEF Handle

(* Every step keeps it that is not hasty.                                    *)
LEMMA KeptStep ==
  ASSUME TypeOK, PutsAreWhole, Sorted, Kept, [Next]_vars, Patient'
  PROVE  Kept'
<1>0. hasty' = 0 /\ {} \in SUBSET Mishaps /\ Overtaking \in SUBSET Mishaps
  BY Conditions DEF Patient
<1>1. ASSUME NEW c \in Calls, NEW call, call.kind \notin {"put", "list", "get"},
             calls' = [calls EXCEPT ![c] = call],
             UNCHANGED <<journal, home, current, text, dirty, fresh, timer>>
      PROVE  Kept'
  <2>1. calls'[c] = call
    BY <1>1 DEF TypeOK
  <2>2. PutHas(c)' /\ GetHas(c)'
    BY <1>1, <2>1 DEF PutHas, GetHas
  <2> QED BY <1>1, <2>2, KeptStays
<1>2. ASSUME UNCHANGED <<journal, calls, home, current, text, dirty, fresh>>,
             timer' => timer
      PROVE  Kept'
  BY <1>2
  DEF Kept, PutHas, GetHas, Lacks, OneAtATime, Safe, Made, Stored, HomeOf, InFlight
<1>3. CASE SwitchTab \/ UNCHANGED vars
  BY <1>2, <1>3 DEF SwitchTab, vars, disk, page, history
<1>4. CASE Type
  BY <1>0, <1>4, TypeKeeps
<1>5. CASE TimerFires
  <2>1. ASSUME NEW c \in Calls, dirty, timer, SaveJournal(c), Notes(Overtaking)
        PROVE  Kept'
    <3>1. fresh /\ ~InFlight("put")
      BY <2>1 DEF Sorted, Kept
    <3>2. \A d \in Calls : calls[d].kind # "put"
      BY <2>1, <3>1, NothingOvertaken DEF Notes
    <3> QED BY <2>1, <3>1, <3>2, SaveJournalKeeps
  <2> QED BY <1>2, <1>5, <2>1 DEF TimerFires, Unsaved, disk, history
<1>6. CASE Crash
  <2>1. UNCHANGED <<journal, home, current, text, dirty, fresh, timer>>
    BY <1>6 DEF Crash, page
  <2>2. \A c \in Calls : calls'[c] = calls[c] \/ calls'[c].kind = "idle"
    BY <1>6 DEF Crash, Idle
  <2>3. \A c \in Calls : PutHas(c)' /\ GetHas(c)'
    BY <2>1, <2>2 DEF Kept, PutHas, GetHas, Lacks, Made, HomeOf
  <2>4. OneAtATime({"put"})' /\ OneAtATime({"list", "get"})'
    BY <2>2 DEF Kept, OneAtATime
  <2>5. Safe'
    BY <2>1 DEF Kept, Safe, Made, Stored, HomeOf
  <2>6. timer' => ~InFlight("put")'
    BY <2>1, <2>2 DEF Kept, InFlight
  <2> QED BY <2>1, <2>3, <2>4, <2>5, <2>6 DEF Kept
<1>7. ASSUME NEW c \in Calls, NEW s \in Saves, SelectSave(c, s)
      PROVE  Kept'
  <2>1. ~dirty /\ ~Loading
    BY <1>0, <1>7, Waited DEF SelectSave
  <2>2. \A d \in Calls : calls[d].kind \notin {"list", "get"}
    BY <2>1, NotLoading
  <2>3. calls[c].kind = "idle"
    BY <1>7 DEF SelectSave, Idle
  <2> QED BY <1>7, <2>1, <2>2, <2>3, OnSaveChangeKeeps DEF SelectSave
<1>8. ASSUME NEW c \in Calls,
             OpenSidebar(c) \/ ClickSave(c) \/ Arrives(c) \/ FetchThrows(c)
      PROVE  Kept'
  <2>0. Idle.kind = "idle"
    BY DEF Idle
  <2>1. CASE OpenSidebar(c)
    <3> DEFINE call == Sent("list", None, {})
    <3>1. call.kind = "list" /\ call.at = "sent"
      BY DEF Sent
    <3>2. /\ calls' = [calls EXCEPT ![c] = call]
          /\ UNCHANGED <<journal, home, current, text, dirty, fresh, timer>>
      BY <2>1 DEF OpenSidebar, Start, disk, page
    <3> HIDE DEF call
    <3>3. ~dirty /\ ~Loading
      BY <1>0, <2>1, Waited DEF OpenSidebar
    <3>4. \A d \in Calls : calls'[d] = IF d = c THEN call ELSE calls[d]
      BY <3>2 DEF TypeOK
    <3>5. \A d \in Calls : calls[d].kind \notin {"list", "get"}
      BY <3>3, NotLoading
    <3>6. \A d \in Calls : PutHas(d)' /\ GetHas(d)'
      BY <3>1, <3>2, <3>3, <3>4 DEF Kept, PutHas, GetHas, Lacks, Made, HomeOf
    <3>7. OneAtATime({"put"})' /\ OneAtATime({"list", "get"})'
      BY <3>1, <3>4, <3>5 DEF Kept, OneAtATime
    <3>8. Safe'
      BY <3>2 DEF Kept, Safe, Made, Stored, HomeOf
    <3>9. timer' => ~InFlight("put")'
      BY <3>1, <3>2, <3>4 DEF Kept, InFlight
    <3> QED BY <3>2, <3>6, <3>7, <3>8, <3>9 DEF Kept
  <2>2. CASE ClickSave(c)
    <3>1. fresh /\ ~InFlight("put") /\ Overtaking \subseteq mishaps'
      BY <1>0, <2>2, Waited DEF ClickSave, ActsOnText, Acts, Notes
    <3>2. \A d \in Calls : calls[d].kind # "put"
      BY <3>1, NothingOvertaken
    <3> QED BY <2>2, <3>1, <3>2, SaveJournalKeeps DEF ClickSave
  <2>3. CASE ListArrives(c)
    <3>1. calls[c].kind = "list"
      BY <2>3 DEF ListArrives
    <3>2. ~dirty /\ \A d \in Calls \ {c} : calls[d].kind \notin {"list", "get"}
      BY <3>1 DEF Kept, GetHas, OneAtATime
    <3> QED BY <2>3, <3>1, <3>2, OnSaveChangeKeeps DEF ListArrives
  <2>4. CASE ListFails(c) \/ (FetchThrows(c) /\ End(c))
    <3>1. UNCHANGED <<journal, home, current, text, dirty, fresh, timer>>
      BY <2>4 DEF ListFails, FetchThrows, disk, page, history
    <3> QED BY <1>1, <2>0, <2>4, <3>1 DEF ListFails, End
  <2>7. CASE FetchThrows(c) /\ ~End(c)
    <3> DEFINE call == [calls[c] EXCEPT !.awaited = FALSE]
    <3>1. /\ calls' = [calls EXCEPT ![c] = call] /\ calls[c].kind = "put"
          /\ UNCHANGED <<journal, home, current, text, dirty, fresh, timer>>
      BY <2>7 DEF FetchThrows, disk, page
    <3>2. /\ call.kind = calls[c].kind /\ call.at = calls[c].at
          /\ call.save = calls[c].save /\ call.text = calls[c].text
          /\ ~call.awaited
      BY DEF TypeOK, Call
    <3> HIDE DEF call
    <3>3. calls'[c] = call
      BY <3>1 DEF TypeOK
    <3>4. PutHas(c)' /\ GetHas(c)'
      BY <3>1, <3>2, <3>3 DEF Kept, PutHas, GetHas, Lacks, Made, HomeOf
    <3> QED BY <3>1, <3>2, <3>4, KeptStays
  <2>5. CASE LoadArrives(c)
    BY <2>5, LoadArrivesKeeps
  <2>6. CASE PutArrives(c)
    BY <2>6, PutArrivesKeeps
  <2> QED BY <1>8, <2>1, <2>2, <2>3, <2>4, <2>5, <2>6, <2>7 DEF Arrives
<1>9. ASSUME NEW c \in Calls, Handle(c)
      PROVE  Kept'
  BY <1>9, HandleKeeps
<1> QED BY <1>3, <1>4, <1>5, <1>6, <1>7, <1>8, <1>9 DEF Next, User

LEMMA KeptInductive == Inv /\ KeptInv /\ [Next]_vars => KeptInv'
<1> SUFFICES ASSUME Inv, KeptInv, [Next]_vars, Patient'
             PROVE  "stale" \notin mishaps' /\ Kept'
  BY DEF KeptInv
<1>1. Patient /\ ("stale" \in mishaps' => "stale" \in mishaps)
  BY HastyStays DEF Inv
<1>2. "stale" \notin mishaps /\ Kept
  BY <1>1 DEF KeptInv
<1> QED BY <1>1, <1>2, KeptStep DEF Inv

(* Nothing of a journal is lost, whatever fails or crashes, if the user      *)
(* waits for what is loading or being saved, chooses a save only when        *)
(* nothing is unsaved, and no text is sent while the handler of one whose    *)
(* fetch threw is at work.                                                   *)
THEOREM NothingIsLost == Spec => []PassagesAreKept
<1>1. KeptInv => PassagesAreKept
  BY DEF KeptInv, Patient, Kept, Safe, PassagesAreKept
<1>2. Spec => []KeptInv
  BY KeptInit, KeptInductive, InvHolds, PTL DEF Spec
<1> QED BY <1>1, <1>2, PTL
=============================================================================
