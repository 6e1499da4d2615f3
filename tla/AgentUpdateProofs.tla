-------------------------- MODULE AgentUpdateProofs -------------------------
(***************************************************************************)
(* Theorems about AgentUpdate, for every set of versions, any of them deaf,*)
(* every number of offers at a time, every health window and any number of *)
(* crashes.  handleUpdateOffer starts a goroutine per frame and takes no   *)
(* lock; what it costs is in the properties, which say what is kept until  *)
(* two offers have been applied side by side.                              *)
(***************************************************************************)
EXTENDS AgentUpdate, TLAPS

\* The process: nothing runs after it has exited, an offer has a version, a
\* version that has a session or an offer has proved itself.
ProcessPart ==
  /\ proc = None => /\ ~session /\ confirm = "idle" /\ dog.pc = "off"
                    /\ \A h \in Offers : offer[h].pc = "idle"
  /\ session => proc \in proven
  /\ confirm # "idle" => session
  /\ \A h \in Offers : offer[h].pc # "idle" => offer[h].version \in Versions /\ proc \in proven

\* The marker that an offer or a session finds was written by an offer that
\* waits for the restart; until an overlap one offer at most is at the files.
MarkerPart ==
  /\ PendingMarker /\ (\E h \in Offers : offer[h].pc # "idle")
       => \E g \in Offers : offer[g].pc = "restart"
  /\ session /\ confirm = "idle" /\ PendingMarker => \E g \in Offers : offer[g].pc = "restart"
  /\ Without({"overlap"}) => \A g, h \in Offers : AtWork(g) /\ AtWork(h) => g = h

\* The binaries: the executable is missing only between the two renames of
\* Apply, and is one that has proved itself or is running, except after them.
BinaryPart == Without({"overlap"}) =>
  /\ self = None /\ Without({"unrestored"}) =>
       prev # None /\ (proc = None \/ \E h \in Offers : offer[h].pc = "install")
  /\ (proc # None /\ \A h \in Offers : offer[h].pc \notin {"mark", "restart"})
       => self \in proven \cup {None, proc}
  /\ prev # None => prev \in proven

\* Until two goroutines meet or a marker is missing: the confirmation and the
\* watchdog leave an update alone that is being applied, act only on an
\* executable that has proved itself, and one that has not has its fallback and,
\* after WriteMarker, its marker.
RollbackPart == Without({"overlap", "crossed", "unmarked"}) =>
  /\ \A h \in Offers : AtWork(h) /\ offer[h].pc # "restart" => dog.pc \in {"off", "wait"}
  /\ \A h \in Offers : AtWork(h) => confirm = "idle"
  /\ \A h \in Offers : offer[h].pc = "install" => prev \in proven
  /\ confirm # "idle" => self \notin Versions \ proven
  /\ dog.pc \in {"unmark", "restart"} => self \notin Versions \ proven
  /\ self \in Versions \ proven =>
       prev \in proven /\ (PendingMarker \/ \E h \in Offers : offer[h].pc = "mark")

\* The inductive invariant.
Inv == TypeOK /\ ProcessPart /\ MarkerPart /\ BinaryPart /\ RollbackPart

-----------------------------------------------------------------------------
\* The first version, installed and connected.
LEMMA InitInv == Init => Inv
  <1> SUFFICES ASSUME Init PROVE Inv
    OBVIOUS
  <1> USE UpdateAssumption DEF Init, IdleOffer, NoMarker, NoDog
  <1>1. TypeOK
    BY DEF TypeOK
  <1>2. ProcessPart /\ MarkerPart
    BY DEF ProcessPart, MarkerPart, AtWork, Without, Faults, PendingMarker
  <1>3. BinaryPart
    BY DEF BinaryPart, Without
  <1>4. RollbackPart
    BY DEF RollbackPart, AtWork, Without
  <1> QED
    BY <1>1, <1>2, <1>3, <1>4 DEF Inv

\* Every file operation, restart, crash and connection preserves the invariant.
LEMMA NextInv == Inv /\ [Next]_vars => Inv'
  <1> SUFFICES ASSUME Inv, [Next]_vars PROVE Inv'
    OBVIOUS
  <1>0. TypeOK /\ ProcessPart /\ MarkerPart /\ BinaryPart /\ RollbackPart
    BY DEF Inv
  <1> USE UpdateAssumption
  <1>1. ASSUME NEW h \in Offers, NEW v \in Versions, ReceiveOffer(h, v) PROVE Inv'
    <2>1. TypeOK'
      BY <1>0, <1>1 DEF TypeOK, ReceiveOffer, files, Faults
    <2>2. ProcessPart'
      BY <1>0, <1>1 DEF TypeOK, ProcessPart, ReceiveOffer, files, Faults
    <2>3. MarkerPart'
      BY <1>0, <1>1 DEF TypeOK, ProcessPart, MarkerPart, AtWork, Without, Faults,
         PendingMarker, ReceiveOffer, files
    <2>4. BinaryPart'
      BY <1>0, <1>1 DEF TypeOK, ProcessPart, MarkerPart, BinaryPart,
         AtWork, Without, Faults, PendingMarker, ReceiveOffer, files
    <2>5. RollbackPart'
      BY <1>0, <1>1 DEF TypeOK, ProcessPart, MarkerPart, BinaryPart,
         RollbackPart, AtWork, Without, Faults, PendingMarker, ReceiveOffer, files
    <2> QED
      BY <1>0, <2>1, <2>2, <2>3, <2>4, <2>5 DEF Inv
  <1>2. ASSUME NEW h \in Offers, OfferRefused(h) PROVE Inv'
    <2>1. TypeOK'
      BY <1>0, <1>2 DEF TypeOK, OfferRefused, GiveUp, IdleOffer, files, Faults
    <2>2. ProcessPart'
      BY <1>0, <1>2 DEF TypeOK, ProcessPart, OfferRefused, GiveUp, IdleOffer, files
    <2>3. MarkerPart'
      BY <1>0, <1>2 DEF TypeOK, ProcessPart, MarkerPart, AtWork, Without, Faults,
         PendingMarker, OfferRefused, GiveUp, IdleOffer, files
    <2>4. BinaryPart'
      BY <1>0, <1>2 DEF TypeOK, ProcessPart, MarkerPart, BinaryPart,
         AtWork, Without, Faults, PendingMarker, OfferRefused, GiveUp, IdleOffer, files
    <2>5. RollbackPart'
      BY <1>0, <1>2 DEF TypeOK, ProcessPart, MarkerPart, BinaryPart,
         RollbackPart, AtWork, Without, Faults, PendingMarker, OfferRefused, GiveUp,
         IdleOffer, files
    <2> QED
      BY <1>0, <2>1, <2>2, <2>3, <2>4, <2>5 DEF Inv
  <1>3. ASSUME NEW h \in Offers, Verified(h) PROVE Inv'
    <2>1. TypeOK'
      BY <1>0, <1>3 DEF TypeOK, Verified, Goto, files, Faults
    <2>2. ProcessPart'
      BY <1>0, <1>3 DEF TypeOK, ProcessPart, Verified, Goto, files, Faults
    <2>3. MarkerPart'
      BY <1>0, <1>3 DEF TypeOK, ProcessPart, MarkerPart, AtWork, Without, Faults,
         PendingMarker, Verified, Goto, files
    <2>4. BinaryPart'
      BY <1>0, <1>3 DEF TypeOK, ProcessPart, MarkerPart, BinaryPart,
         AtWork, Without, Faults, PendingMarker, Verified, Goto, files
    <2>5. RollbackPart'
      BY <1>0, <1>3 DEF TypeOK, ProcessPart, MarkerPart, BinaryPart,
         RollbackPart, AtWork, Without, Faults, PendingMarker, Verified, Goto, files
    <2> QED
      BY <1>0, <2>1, <2>2, <2>3, <2>4, <2>5 DEF Inv
  <1>4. ASSUME NEW h \in Offers, Stage(h) PROVE Inv'
    <2>1. TypeOK'
      BY <1>0, <1>4 DEF TypeOK, Stage, Goto, GiveUp, IdleOffer, files, Faults
    <2>2. ProcessPart'
      BY <1>0, <1>4 DEF TypeOK, ProcessPart, Stage, Goto, GiveUp, IdleOffer, files, Faults
    <2>3. MarkerPart'
      BY <1>0, <1>4 DEF TypeOK, ProcessPart, MarkerPart, AtWork, Without, Faults,
         PendingMarker, Stage, Goto, GiveUp, IdleOffer, files
    <2>4. BinaryPart'
      BY <1>0, <1>4 DEF TypeOK, ProcessPart, MarkerPart, BinaryPart,
         AtWork, Without, Faults, PendingMarker, Stage, Goto, GiveUp, IdleOffer, files
    <2>5. RollbackPart'
      <3>1. CASE GiveUp(h) /\ UNCHANGED faults
        BY <1>0, <1>4, <3>1 DEF TypeOK, RollbackPart, AtWork, Without, PendingMarker, Stage,
           GiveUp, IdleOffer, files
      <3>2. CASE Goto(h, "clear") /\ ~(GiveUp(h) /\ UNCHANGED faults)
        <4> SUFFICES ASSUME Without({"overlap", "crossed", "unmarked"})' PROVE RollbackPart'
          BY DEF RollbackPart
        <4>1. "overlap" \notin faults' /\ "crossed" \notin faults' /\ "unmarked" \notin faults'
          BY DEF Without
        <4>2. faults' = faults \cup {f \in {"overlap"} : \E g \in Offers : AtWork(g)}
                \cup {f \in {"crossed"} : confirm # "idle" \/ dog.pc \notin {"off", "wait"}}
          BY <1>4, <3>2 DEF Stage
        <4>3. "overlap" \notin faults /\ "crossed" \notin faults /\ "unmarked" \notin faults
          BY <4>1, <4>2
        <4>4. Without({"overlap", "crossed", "unmarked"})
          BY <4>3 DEF Without
        <4>5. /\ \A g \in Offers : ~AtWork(g)
              /\ confirm = "idle" /\ dog.pc \in {"off", "wait"}
          BY <4>1, <4>2
        <4> QED
          BY <1>0, <1>4, <3>2, <4>4, <4>5 DEF TypeOK, RollbackPart, AtWork, PendingMarker,
             Stage, Goto, files
      <3> QED
        BY <1>4, <3>1, <3>2 DEF Stage
    <2> QED
      BY <1>0, <2>1, <2>2, <2>3, <2>4, <2>5 DEF Inv
  <1>5. ASSUME NEW h \in Offers, ClearPrev(h) PROVE Inv'
    <2>1. TypeOK'
      BY <1>0, <1>5 DEF TypeOK, ClearPrev, Goto, files, Faults
    <2>2. ProcessPart'
      BY <1>0, <1>5 DEF TypeOK, ProcessPart, ClearPrev, Goto, files, Faults
    <2>3. MarkerPart'
      BY <1>0, <1>5 DEF TypeOK, ProcessPart, MarkerPart, AtWork, Without, Faults,
         PendingMarker, ClearPrev, Goto, files
    <2>4. BinaryPart'
      BY <1>0, <1>5 DEF TypeOK, ProcessPart, MarkerPart, BinaryPart,
         AtWork, Without, Faults, PendingMarker, ClearPrev, Goto, files
    <2>5. RollbackPart'
      BY <1>0, <1>5 DEF TypeOK, ProcessPart, MarkerPart, BinaryPart,
         RollbackPart, AtWork, Without, Faults, PendingMarker, ClearPrev, Goto, files
    <2> QED
      BY <1>0, <2>1, <2>2, <2>3, <2>4, <2>5 DEF Inv
  <1>6. ASSUME NEW h \in Offers, MoveAside(h) PROVE Inv'
    <2>1. TypeOK'
      BY <1>0, <1>6 DEF TypeOK, MoveAside, Goto, GiveUp, IdleOffer, files, Faults
    <2>2. ProcessPart'
      BY <1>0, <1>6 DEF TypeOK, ProcessPart, MoveAside, Goto, GiveUp, IdleOffer, files
    <2>3. MarkerPart'
      BY <1>0, <1>6 DEF TypeOK, ProcessPart, MarkerPart, AtWork, Without, Faults,
         PendingMarker, MoveAside, Goto, GiveUp, IdleOffer, files
    <2>4. BinaryPart'
      BY <1>0, <1>6 DEF TypeOK, ProcessPart, MarkerPart, BinaryPart,
         AtWork, Without, Faults, PendingMarker, MoveAside, Goto, GiveUp, IdleOffer, files
    <2>5. RollbackPart'
      BY <1>0, <1>6 DEF TypeOK, ProcessPart, MarkerPart, BinaryPart,
         RollbackPart, AtWork, Without, Faults, PendingMarker, MoveAside, Goto, GiveUp,
         IdleOffer, files
    <2> QED
      BY <1>0, <2>1, <2>2, <2>3, <2>4, <2>5 DEF Inv
  <1>7. ASSUME NEW h \in Offers, Install(h) PROVE Inv'
    <2>1. TypeOK'
      BY <1>0, <1>7 DEF TypeOK, Install, Note, Goto, GiveUp, IdleOffer, files, Faults
    <2>2. ProcessPart'
      BY <1>0, <1>7 DEF TypeOK, ProcessPart, Install, Note, Goto, GiveUp, IdleOffer, files
    <2>3. MarkerPart'
      BY <1>0, <1>7 DEF TypeOK, ProcessPart, MarkerPart, AtWork, Without, Faults,
         PendingMarker, Install, Note, Goto, GiveUp, IdleOffer, files
    <2>4. BinaryPart'
      BY <1>0, <1>7 DEF TypeOK, ProcessPart, MarkerPart, BinaryPart,
         AtWork, Without, Faults, PendingMarker, Install, Note, Goto, GiveUp, IdleOffer, files
    <2>5. RollbackPart'
      BY <1>0, <1>7 DEF TypeOK, ProcessPart, MarkerPart, BinaryPart,
         RollbackPart, AtWork, Without, Faults, PendingMarker, Install, Note, Goto, GiveUp,
         IdleOffer, files
    <2> QED
      BY <1>0, <2>1, <2>2, <2>3, <2>4, <2>5 DEF Inv
  <1>8. ASSUME NEW h \in Offers, WriteMarker(h) PROVE Inv'
    <2>1. TypeOK'
      <3>1. offer[h].version \in Versions /\ clock + Window \in Nat
        <4>1. offer[h].pc # "idle"
          BY <1>8 DEF WriteMarker
        <4>2. clock + Window \in Nat
          BY <1>0 DEF TypeOK
        <4> QED
          BY <1>0, <4>1, <4>2 DEF ProcessPart
      <3>2. marker' \in [version : Versions \cup {None}, deadline : Nat]
        BY <1>0, <1>8, <3>1 DEF TypeOK, WriteMarker, Note
      <3>3. faults' \subseteq Faults
        BY <1>0, <1>8 DEF TypeOK, WriteMarker, Note, Faults
      <3>4. offer' = [offer EXCEPT ![h].pc = "restart"]
        BY <1>8 DEF WriteMarker, Note, Goto
      <3> QED
        BY <1>0, <1>8, <3>2, <3>3, <3>4 DEF TypeOK, WriteMarker
    <2>2. ProcessPart'
      BY <1>0, <1>8 DEF TypeOK, ProcessPart, WriteMarker, Note, Goto, files, Faults
    <2>3. MarkerPart'
      BY <1>0, <1>8 DEF TypeOK, ProcessPart, MarkerPart, AtWork, Without, Faults,
         PendingMarker, WriteMarker, Note, Goto, files
    <2>4. BinaryPart'
      BY <1>0, <1>8 DEF TypeOK, ProcessPart, MarkerPart, BinaryPart,
         AtWork, Without, Faults, PendingMarker, WriteMarker, Note, Goto, files
    <2>5. RollbackPart'
      BY <1>0, <1>8 DEF TypeOK, ProcessPart, MarkerPart, BinaryPart,
         RollbackPart, AtWork, Without, Faults, PendingMarker, WriteMarker, Note, Goto, files
    <2> QED
      BY <1>0, <2>1, <2>2, <2>3, <2>4, <2>5 DEF Inv
  <1>9. CASE Restart
    <2>1. TypeOK'
      BY <1>0, <1>9 DEF TypeOK, Restart, Exit, IdleOffer, NoDog, files, Faults
    <2>2. ProcessPart'
      BY <1>0, <1>9 DEF TypeOK, ProcessPart, Restart, Exit, IdleOffer, NoDog,
         files
    <2>3. MarkerPart'
      BY <1>0, <1>9 DEF TypeOK, ProcessPart, MarkerPart, AtWork, Without, Faults,
         PendingMarker, Restart, Exit, IdleOffer, NoDog, files
    <2>4. BinaryPart'
      BY <1>0, <1>9 DEF TypeOK, ProcessPart, MarkerPart, BinaryPart,
         AtWork, Without, Faults, PendingMarker, Restart, Exit, IdleOffer, NoDog, files
    <2>5. RollbackPart'
      BY <1>0, <1>9 DEF TypeOK, ProcessPart, MarkerPart, BinaryPart,
         RollbackPart, AtWork, Without, Faults, PendingMarker, Restart, Exit, IdleOffer,
         NoDog, files
    <2> QED
      BY <1>0, <2>1, <2>2, <2>3, <2>4, <2>5 DEF Inv
  <1>10. CASE Crash
    <2>1. TypeOK'
      <3>1. faults' \subseteq Faults /\ crashes' \in Nat /\ UNCHANGED <<files, clock, proven>>
        BY <1>0, <1>10 DEF TypeOK, Crash, Note, Faults
      <3>2. /\ proc' = None /\ session' = FALSE /\ confirm' = "idle" /\ dog' = NoDog
            /\ offer' = [h \in Offers |-> IdleOffer]
        BY <1>10 DEF Crash, Note, Exit
      <3> QED
        BY <1>0, <3>1, <3>2 DEF TypeOK, IdleOffer, NoDog, files, Faults
    <2>2. ProcessPart'
      BY <1>0, <1>10 DEF TypeOK, ProcessPart, Crash, Note, Exit, IdleOffer, NoDog,
         files
    <2>3. MarkerPart'
      BY <1>0, <1>10 DEF TypeOK, ProcessPart, MarkerPart, AtWork, Without, Faults,
         PendingMarker, Crash, Note, Exit, IdleOffer, NoDog, files
    <2>4. BinaryPart'
      BY <1>0, <1>10 DEF TypeOK, ProcessPart, MarkerPart, BinaryPart,
         AtWork, Without, Faults, PendingMarker, Crash, Note, Exit, IdleOffer, NoDog, files
    <2>5. RollbackPart'
      BY <1>0, <1>10 DEF TypeOK, ProcessPart, MarkerPart, BinaryPart,
         RollbackPart, AtWork, Without, Faults, PendingMarker, Crash, Note, Exit, IdleOffer,
         NoDog, files
    <2> QED
      BY <1>0, <2>1, <2>2, <2>3, <2>4, <2>5 DEF Inv
  <1>11. CASE Start
    <2>1. TypeOK'
      BY <1>0, <1>11 DEF TypeOK, Start, NoDog, files, Faults
    <2>2. ProcessPart'
      BY <1>0, <1>11 DEF TypeOK, ProcessPart, Start, NoDog, files, Faults
    <2>3. MarkerPart'
      BY <1>0, <1>11 DEF TypeOK, ProcessPart, MarkerPart, AtWork, Without, Faults,
         PendingMarker, Start, NoDog, files
    <2>4. BinaryPart'
      BY <1>0, <1>11 DEF TypeOK, ProcessPart, MarkerPart, BinaryPart,
         AtWork, Without, Faults, PendingMarker, Start, NoDog, files
    <2>5. RollbackPart'
      BY <1>0, <1>11 DEF TypeOK, ProcessPart, MarkerPart, BinaryPart,
         RollbackPart, AtWork, Without, Faults, PendingMarker, Start, NoDog, files
    <2> QED
      BY <1>0, <2>1, <2>2, <2>3, <2>4, <2>5 DEF Inv
  <1>12. CASE Connect
    <2>1. TypeOK'
      BY <1>0, <1>12 DEF TypeOK, Connect, Note, files, Faults
    <2>2. ProcessPart'
      BY <1>0, <1>12 DEF TypeOK, ProcessPart, Connect, Note, files, Faults
    <2>3. MarkerPart'
      BY <1>0, <1>12 DEF TypeOK, ProcessPart, MarkerPart, AtWork, Without, Faults,
         PendingMarker, Connect, Note, files
    <2>4. BinaryPart'
      BY <1>0, <1>12 DEF TypeOK, ProcessPart, MarkerPart, BinaryPart,
         AtWork, Without, Faults, PendingMarker, Connect, Note, files
    <2>5. RollbackPart'
      BY <1>0, <1>12 DEF TypeOK, ProcessPart, MarkerPart, BinaryPart,
         RollbackPart, AtWork, Without, Faults, PendingMarker, Connect, Note, files
    <2> QED
      BY <1>0, <2>1, <2>2, <2>3, <2>4, <2>5 DEF Inv
  <1>13. CASE Drop
    <2>1. TypeOK'
      BY <1>0, <1>13 DEF TypeOK, Drop, files, Faults
    <2>2. ProcessPart'
      BY <1>0, <1>13 DEF TypeOK, ProcessPart, Drop, files, Faults
    <2>3. MarkerPart'
      BY <1>0, <1>13 DEF TypeOK, ProcessPart, MarkerPart, AtWork, Without, Faults,
         PendingMarker, Drop, files
    <2>4. BinaryPart'
      BY <1>0, <1>13 DEF TypeOK, ProcessPart, MarkerPart, BinaryPart,
         AtWork, Without, Faults, PendingMarker, Drop, files
    <2>5. RollbackPart'
      BY <1>0, <1>13 DEF TypeOK, ProcessPart, MarkerPart, BinaryPart,
         RollbackPart, AtWork, Without, Faults, PendingMarker, Drop, files
    <2> QED
      BY <1>0, <2>1, <2>2, <2>3, <2>4, <2>5 DEF Inv
  <1>14. CASE ConfirmRemovePrev
    <2>1. TypeOK'
      BY <1>0, <1>14 DEF TypeOK, ConfirmRemovePrev, files, Faults
    <2>2. ProcessPart'
      BY <1>0, <1>14 DEF TypeOK, ProcessPart, ConfirmRemovePrev, files, Faults
    <2>3. MarkerPart'
      BY <1>0, <1>14 DEF TypeOK, ProcessPart, MarkerPart, AtWork, Without, Faults,
         PendingMarker, ConfirmRemovePrev, files
    <2>4. BinaryPart'
      BY <1>0, <1>14 DEF TypeOK, ProcessPart, MarkerPart, BinaryPart,
         AtWork, Without, Faults, PendingMarker, ConfirmRemovePrev, files
    <2>5. RollbackPart'
      BY <1>0, <1>14 DEF TypeOK, ProcessPart, MarkerPart, BinaryPart,
         RollbackPart, AtWork, Without, Faults, PendingMarker, ConfirmRemovePrev, files
    <2> QED
      BY <1>0, <2>1, <2>2, <2>3, <2>4, <2>5 DEF Inv
  <1>15. CASE ConfirmRemoveMarker
    <2>1. TypeOK'
      BY <1>0, <1>15 DEF TypeOK, ConfirmRemoveMarker, NoMarker, files, Faults
    <2>2. ProcessPart'
      BY <1>0, <1>15 DEF TypeOK, ProcessPart, ConfirmRemoveMarker, NoMarker,
         files
    <2>3. MarkerPart'
      BY <1>0, <1>15 DEF TypeOK, ProcessPart, MarkerPart, AtWork, Without, Faults,
         PendingMarker, ConfirmRemoveMarker, NoMarker, files
    <2>4. BinaryPart'
      BY <1>0, <1>15 DEF TypeOK, ProcessPart, MarkerPart, BinaryPart,
         AtWork, Without, Faults, PendingMarker, ConfirmRemoveMarker, NoMarker, files
    <2>5. RollbackPart'
      BY <1>0, <1>15 DEF TypeOK, ProcessPart, MarkerPart, BinaryPart,
         RollbackPart, AtWork, Without, Faults, PendingMarker, ConfirmRemoveMarker,
         NoMarker, files
    <2> QED
      BY <1>0, <2>1, <2>2, <2>3, <2>4, <2>5 DEF Inv
  <1>16. CASE DogWakes
    <2>1. TypeOK'
      BY <1>0, <1>16 DEF TypeOK, DogWakes, DogStep, NoDog, files, Faults
    <2>2. ProcessPart'
      BY <1>0, <1>16 DEF TypeOK, ProcessPart, DogWakes, DogStep, NoDog, files, Faults
    <2>3. MarkerPart'
      BY <1>0, <1>16 DEF TypeOK, ProcessPart, MarkerPart, AtWork, Without, Faults,
         PendingMarker, DogWakes, DogStep, NoDog, files
    <2>4. BinaryPart'
      BY <1>0, <1>16 DEF TypeOK, ProcessPart, MarkerPart, BinaryPart,
         AtWork, Without, Faults, PendingMarker, DogWakes, DogStep, NoDog, files
    <2>5. RollbackPart'
      BY <1>0, <1>16 DEF TypeOK, ProcessPart, MarkerPart, BinaryPart,
         RollbackPart, AtWork, Without, Faults, PendingMarker, DogWakes, DogStep, NoDog,
         files
    <2> QED
      BY <1>0, <2>1, <2>2, <2>3, <2>4, <2>5 DEF Inv
  <1>17. CASE DogStats
    <2>1. TypeOK'
      BY <1>0, <1>17 DEF TypeOK, DogStats, DogStep, NoDog, files, Faults
    <2>2. ProcessPart'
      BY <1>0, <1>17 DEF TypeOK, ProcessPart, DogStats, DogStep, NoDog, files, Faults
    <2>3. MarkerPart'
      BY <1>0, <1>17 DEF TypeOK, ProcessPart, MarkerPart, AtWork, Without, Faults,
         PendingMarker, DogStats, DogStep, NoDog, files
    <2>4. BinaryPart'
      BY <1>0, <1>17 DEF TypeOK, ProcessPart, MarkerPart, BinaryPart,
         AtWork, Without, Faults, PendingMarker, DogStats, DogStep, NoDog, files
    <2>5. RollbackPart'
      BY <1>0, <1>17 DEF TypeOK, ProcessPart, MarkerPart, BinaryPart,
         RollbackPart, AtWork, Without, Faults, PendingMarker, DogStats, DogStep, NoDog,
         files
    <2> QED
      BY <1>0, <2>1, <2>2, <2>3, <2>4, <2>5 DEF Inv
  <1>18. CASE DogRenames
    <2>1. TypeOK'
      BY <1>0, <1>18 DEF TypeOK, DogRenames, Note, DogStep, NoDog, files, Faults
    <2>2. ProcessPart'
      BY <1>0, <1>18 DEF TypeOK, ProcessPart, DogRenames, Note, DogStep, NoDog, files, Faults
    <2>3. MarkerPart'
      BY <1>0, <1>18 DEF TypeOK, ProcessPart, MarkerPart, AtWork, Without, Faults,
         PendingMarker, DogRenames, Note, DogStep, NoDog, files
    <2>4. BinaryPart'
      BY <1>0, <1>18 DEF TypeOK, ProcessPart, MarkerPart, BinaryPart,
         AtWork, Without, Faults, PendingMarker, DogRenames, Note, DogStep, NoDog, files
    <2>5. RollbackPart'
      BY <1>0, <1>18 DEF TypeOK, ProcessPart, MarkerPart, BinaryPart,
         RollbackPart, AtWork, Without, Faults, PendingMarker, DogRenames, Note, DogStep, NoDog,
         files
    <2> QED
      BY <1>0, <2>1, <2>2, <2>3, <2>4, <2>5 DEF Inv
  <1>19. CASE DogUnmarks
    <2>1. TypeOK'
      BY <1>0, <1>19 DEF TypeOK, DogUnmarks, DogStep, NoDog, NoMarker, files, Faults
    <2>2. ProcessPart'
      BY <1>0, <1>19 DEF TypeOK, ProcessPart, DogUnmarks, DogStep, NoDog,
         NoMarker, files
    <2>3. MarkerPart'
      BY <1>0, <1>19 DEF TypeOK, ProcessPart, MarkerPart, AtWork, Without, Faults,
         PendingMarker, DogUnmarks, DogStep, NoDog, NoMarker, files
    <2>4. BinaryPart'
      BY <1>0, <1>19 DEF TypeOK, ProcessPart, MarkerPart, BinaryPart,
         AtWork, Without, Faults, PendingMarker, DogUnmarks, DogStep, NoDog, NoMarker, files
    <2>5. RollbackPart'
      BY <1>0, <1>19 DEF TypeOK, ProcessPart, MarkerPart, BinaryPart,
         RollbackPart, AtWork, Without, Faults, PendingMarker, DogUnmarks, DogStep, NoDog,
         NoMarker, files
    <2> QED
      BY <1>0, <2>1, <2>2, <2>3, <2>4, <2>5 DEF Inv
  <1>20. CASE Tick
    <2>1. TypeOK'
      BY <1>0, <1>20 DEF TypeOK, Tick, process, files, Faults
    <2>2. ProcessPart'
      BY <1>0, <1>20 DEF TypeOK, ProcessPart, Tick, process, files, Faults
    <2>3. MarkerPart'
      BY <1>0, <1>20 DEF TypeOK, ProcessPart, MarkerPart, AtWork, Without, Faults,
         PendingMarker, Tick, process, files
    <2>4. BinaryPart'
      BY <1>0, <1>20 DEF TypeOK, ProcessPart, MarkerPart, BinaryPart,
         AtWork, Without, Faults, PendingMarker, Tick, process, files
    <2>5. RollbackPart'
      BY <1>0, <1>20 DEF TypeOK, ProcessPart, MarkerPart, BinaryPart,
         RollbackPart, AtWork, Without, Faults, PendingMarker, Tick, process, files
    <2> QED
      BY <1>0, <2>1, <2>2, <2>3, <2>4, <2>5 DEF Inv
  <1>21. CASE UNCHANGED vars
    BY <1>0, <1>21 DEF Inv, vars, files, process, TypeOK, ProcessPart, MarkerPart, BinaryPart,
       RollbackPart, AtWork, Without, Faults, PendingMarker
  <1> QED
    BY <1>1, <1>2, <1>3, <1>4, <1>5, <1>6, <1>7, <1>8, <1>9, <1>10, <1>11, <1>12, <1>13, <1>14,
         <1>15, <1>16, <1>17, <1>18, <1>19, <1>20, <1>21 DEF Next

\* No file operation that fails, no crash, no rollback and no number of offers
\* leaves the host without a complete binary, as long as no two Applies overlap
\* and no restore inside Apply fails.
THEOREM BinaryIsNeverLost == Spec => []BinarySurvives
  <1>1. Inv => BinarySurvives
    BY DEF Inv, BinaryPart, BinarySurvives, Without
  <1> QED
    BY <1>1, InitInv, NextInv, PTL DEF Spec

\* What a rollback restores has reached a session unless two Applies overlapped,
\* and an executable that has not has such a version behind it and a marker that
\* makes the watchdog use it, until one of the named faults.
THEOREM RollbackIsSafe == Spec => []FallbackInv
  <1>1. Inv => FallbackInv
    BY DEF Inv, TypeOK, BinaryPart, RollbackPart, FallbackInv, FallbackIsProven,
       UnprovenHasFallback, Without
  <1> QED
    BY <1>1, InitInv, NextInv, PTL DEF Spec
=============================================================================
