----------------------------- MODULE AgentUpdate ----------------------------
(***************************************************************************)
(* The agent's self-update: handleUpdateOffer, the health confirmation in  *)
(* connectAndServe and the watchdog (agent/internal/conn/conn.go), and     *)
(* Apply, ConfirmHealthy and Rollback (agent/internal/update/update.go).   *)
(*                                                                         *)
(* The file system is three names: the executable (self), its .prev copy   *)
(* and the marker update.json.  Each file operation of the code is a step, *)
(* because the process may stop between any two and because the offer's    *)
(* goroutine, the connection loop and the watchdog run side by side.  The  *)
(* init system starts self again whenever the process has exited.          *)
(***************************************************************************)
EXTENDS Naturals

CONSTANTS
  Versions,    \* versions of the agent
  First,       \* the version installed and connected at the start
  Deaf,        \* versions that run but never reach an authenticated session
  Offers,      \* handleUpdateOffer goroutines alive at a time, one per frame (bound)
  Window,      \* healthCheckWindow, in clock units
  MaxTime,     \* no offer comes later, and the clock stops once no deadline is ahead (bound)
  MaxCrashes,  \* crashes of the process (bound)
  None         \* no file, no process

ASSUME UpdateAssumption ==
  /\ None \notin Versions
  /\ First \in Versions \ Deaf
  /\ Deaf \subseteq Versions
  /\ Window \in Nat /\ MaxTime \in Nat /\ MaxCrashes \in Nat

VARIABLES
  self,     \* the version at selfPath
  prev,     \* the version at selfPath.prev
  marker,   \* update.json: the version it names and its deadline
  proc,     \* the version the running process was started from
  session,  \* does connectAndServe have its HelloAck?
  confirm,  \* the connection loop's progress through ConfirmHealthy
  offer,    \* offer[h]: an offer's progress and its version
  dog,      \* the watchdog goroutine and its deadline
  clock, crashes,
  proven,   \* history: versions that reached a session while they ran
  faults    \* history: what has gone wrong so far, see Faults

files    == <<self, prev, marker>>
process  == <<proc, session, confirm, offer, dog>>
vars == <<files, process, clock, crashes, proven, faults>>

NoMarker == [version |-> None, deadline |-> 0]
IdleOffer == [pc |-> "idle", version |-> None]
NoDog    == [pc |-> "off", deadline |-> 0]
PendingMarker == marker.version # None

\* overlap    a second Apply began before an earlier one had led to its restart
\* crossed    an Apply and a Rollback, or an Apply and a ConfirmHealthy, met
\* unmarked   no marker was written: writeMarker failed or the process died before it
\* unrestored Apply could put neither the new binary in place nor the old one back
\* stuck      Rollback could not rename .prev back
Faults == {"overlap", "crossed", "unmarked", "unrestored", "stuck"}
Without(what) == faults \cap what = {}
Note(what, happened) == faults' = IF happened THEN faults \cup {what} ELSE faults

\* An offer whose Apply has begun to change the files, until the restart.
AtWork(h) == offer[h].pc \in {"clear", "aside", "install", "mark", "restart"}

TypeOK ==
  /\ self \in Versions \cup {None}
  /\ prev \in Versions \cup {None}
  /\ marker \in [version : Versions \cup {None}, deadline : Nat]
  /\ proc \in Versions \cup {None}
  /\ session \in BOOLEAN
  /\ confirm \in {"idle", "prev", "marker"}
  /\ offer \in [Offers -> [pc : {"idle", "download", "stage", "clear", "aside", "install",
                                 "mark", "restart"},
                           version : Versions \cup {None}]]
  /\ dog \in [pc : {"off", "wait", "stat", "rename", "unmark", "restart"}, deadline : Nat]
  /\ clock \in Nat
  /\ crashes \in Nat
  /\ proven \subseteq Versions
  /\ faults \subseteq Faults

Init ==
  /\ self = First
  /\ prev = None
  /\ marker = NoMarker
  /\ proc = First
  /\ session = TRUE
  /\ confirm = "idle"
  /\ offer = [h \in Offers |-> IdleOffer]
  /\ dog = NoDog
  /\ clock = 0
  /\ crashes = 0
  /\ proven = {First}
  /\ faults = {}

-----------------------------------------------------------------------------
(* handleUpdateOffer and Apply.                                            *)

Goto(h, step) == offer' = [offer EXCEPT ![h].pc = step]
GiveUp(h)     == offer' = [offer EXCEPT ![h] = IdleOffer]

\* An offer of another version than the running one starts a goroutine.
ReceiveOffer(h, v) ==
  /\ session /\ confirm = "idle"
  /\ offer[h].pc = "idle"
  /\ v # proc
  /\ clock < MaxTime
  /\ offer' = [offer EXCEPT ![h] = [pc |-> "download", version |-> v]]
  /\ UNCHANGED <<files, proc, session, confirm, dog, clock, crashes, proven, faults>>

\* No trusted key, a failed download or a bad signature ends it.
OfferRefused(h) ==
  /\ offer[h].pc = "download"
  /\ GiveUp(h)
  /\ UNCHANGED <<files, proc, session, confirm, dog, clock, crashes, proven, faults>>

\* Download and Verify succeed.
Verified(h) ==
  /\ offer[h].pc = "download"
  /\ Goto(h, "stage")
  /\ UNCHANGED <<files, proc, session, confirm, dog, clock, crashes, proven, faults>>

\* Apply writes the bytes to a temp file of its own, or gives up.  No lock keeps
\* another Apply, a Rollback or a ConfirmHealthy from being at work.
Stage(h) ==
  /\ offer[h].pc = "stage"
  /\ \/ /\ Goto(h, "clear")
        /\ faults' = faults \cup {f \in {"overlap"} : \E g \in Offers : AtWork(g)}
                            \cup {f \in {"crossed"} : confirm # "idle" \/ dog.pc \notin {"off", "wait"}}
     \/ GiveUp(h) /\ UNCHANGED faults
  /\ UNCHANGED <<files, proc, session, confirm, dog, clock, crashes, proven>>

ClearPrev(h) ==
  /\ offer[h].pc = "clear"
  /\ prev' = None
  /\ Goto(h, "aside")
  /\ UNCHANGED <<self, marker, proc, session, confirm, dog, clock, crashes, proven, faults>>

\* A variant that deletes the running binary instead of keeping it.
DeleteSelf(h) ==
  /\ offer[h].pc = "aside"
  /\ self' = None
  /\ Goto(h, "install")
  /\ UNCHANGED <<prev, marker, proc, session, confirm, dog, clock, crashes, proven, faults>>

\* rename self -> .prev
MoveAside(h) ==
  /\ offer[h].pc = "aside"
  /\ \/ /\ self # None
        /\ prev' = self
        /\ self' = None
        /\ Goto(h, "install")
     \/ /\ GiveUp(h)
        /\ UNCHANGED <<self, prev>>
  /\ UNCHANGED <<marker, proc, session, confirm, dog, clock, crashes, proven, faults>>

\* rename tmp -> self; if it fails, rename .prev -> self, whose error is ignored
Install(h) ==
  /\ offer[h].pc = "install"
  /\ \/ /\ self' = offer[h].version
        /\ Goto(h, "mark")
        /\ UNCHANGED prev
        /\ UNCHANGED faults
     \/ /\ prev # None
        /\ self' = prev
        /\ prev' = None
        /\ GiveUp(h)
        /\ UNCHANGED faults
     \/ /\ UNCHANGED <<self, prev>>
        /\ GiveUp(h)
        /\ Note("unrestored", TRUE)
  /\ UNCHANGED <<marker, proc, session, confirm, dog, clock, crashes, proven>>

\* A variant that restarts without the marker.
SkipMarker(h) ==
  /\ offer[h].pc = "mark"
  /\ UNCHANGED marker
  /\ Goto(h, "restart")
  /\ UNCHANGED <<self, prev, proc, session, confirm, dog, clock, crashes, proven, faults>>

\* writeMarker, whose failure only disables the rollback
WriteMarker(h) ==
  /\ offer[h].pc = "mark"
  /\ \/ /\ marker' = [version |-> offer[h].version, deadline |-> clock + Window]
        /\ UNCHANGED faults
     \/ Note("unmarked", TRUE) /\ UNCHANGED marker
  /\ Goto(h, "restart")
  /\ UNCHANGED <<self, prev, proc, session, confirm, dog, clock, crashes, proven>>

-----------------------------------------------------------------------------
(* The process and its init system.                                        *)

Exit ==
  /\ proc' = None
  /\ session' = FALSE
  /\ confirm' = "idle"
  /\ offer' = [h \in Offers |-> IdleOffer]
  /\ dog' = NoDog

\* Restart after Apply, or by the watchdog after Rollback.
Restart ==
  /\ dog.pc = "restart" \/ \E h \in Offers : offer[h].pc = "restart"
  /\ Exit
  /\ UNCHANGED <<files, clock, crashes, proven, faults>>

Crash ==
  /\ proc # None
  /\ crashes < MaxCrashes
  /\ crashes' = crashes + 1
  /\ Note("unmarked", \E h \in Offers : offer[h].pc = "mark")
  /\ Exit
  /\ UNCHANGED <<files, clock, proven>>

\* A variant that does not arm the watchdog.
StartUnarmed ==
  /\ proc = None
  /\ self # None
  /\ proc' = self
  /\ UNCHANGED <<dog, files, session, confirm, offer, clock, crashes, proven, faults>>

\* The new process runs and arms its watchdog if an update is pending.
Start ==
  /\ proc = None
  /\ self # None
  /\ proc' = self
  /\ dog' = IF PendingMarker THEN [pc |-> "wait", deadline |-> marker.deadline] ELSE NoDog
  /\ UNCHANGED <<files, session, confirm, offer, clock, crashes, proven, faults>>

\* connectAndServe reaches its HelloAck and looks for the marker.
Connect ==
  /\ proc \in Versions \ Deaf
  /\ ~session
  /\ session' = TRUE
  /\ proven' = proven \cup {proc}
  /\ confirm' = IF PendingMarker THEN "prev" ELSE "idle"
  /\ Note("crossed", PendingMarker /\ \E h \in Offers : AtWork(h))
  /\ UNCHANGED <<files, proc, offer, dog, clock, crashes>>

\* The connection breaks.
Drop ==
  /\ session /\ confirm = "idle"
  /\ session' = FALSE
  /\ UNCHANGED <<files, proc, confirm, offer, dog, clock, crashes, proven, faults>>

\* ConfirmHealthy removes .prev, then the marker.
ConfirmRemovePrev ==
  /\ confirm = "prev"
  /\ prev' = IF PendingMarker THEN None ELSE prev
  /\ confirm' = "marker"
  /\ UNCHANGED <<self, marker, proc, session, offer, dog, clock, crashes, proven, faults>>

ConfirmRemoveMarker ==
  /\ confirm = "marker"
  /\ marker' = NoMarker
  /\ confirm' = "idle"
  /\ UNCHANGED <<self, prev, proc, session, offer, dog, clock, crashes, proven, faults>>

-----------------------------------------------------------------------------
(* The watchdog and Rollback.                                              *)

DogStep(step) == dog' = IF step = "off" THEN NoDog ELSE [dog EXCEPT !.pc = step]

\* The deadline has passed: is the marker still there?
DogWakes ==
  /\ dog.pc = "wait"
  /\ clock >= dog.deadline
  /\ DogStep(IF PendingMarker THEN "stat" ELSE "off")
  /\ UNCHANGED <<files, proc, session, confirm, offer, clock, crashes, proven, faults>>

\* Rollback reads the marker again and looks for .prev.
DogStats ==
  /\ dog.pc = "stat"
  /\ DogStep(IF PendingMarker /\ prev # None THEN "rename" ELSE "off")
  /\ UNCHANGED <<files, proc, session, confirm, offer, clock, crashes, proven, faults>>

\* rename .prev -> self; an error is logged and the watchdog ends
DogRenames ==
  /\ dog.pc = "rename"
  /\ \/ /\ prev # None
        /\ self' = prev
        /\ prev' = None
        /\ DogStep("unmark")
        /\ UNCHANGED faults
     \/ /\ UNCHANGED <<self, prev>>
        /\ DogStep("off")
        /\ Note("stuck", prev # None)
  /\ UNCHANGED <<marker, proc, session, confirm, offer, clock, crashes, proven>>

DogUnmarks ==
  /\ dog.pc = "unmark"
  /\ marker' = NoMarker
  /\ DogStep("restart")
  /\ UNCHANGED <<self, prev, proc, session, confirm, offer, clock, crashes, proven, faults>>

Tick ==
  /\ clock < MaxTime \/ clock < marker.deadline
  /\ clock' = clock + 1
  /\ UNCHANGED <<files, process, crashes, proven, faults>>

-----------------------------------------------------------------------------
ApplyStep(h) == \/ Verified(h) \/ Stage(h) \/ ClearPrev(h) \/ MoveAside(h)
                \/ Install(h) \/ WriteMarker(h)
DogSteps     == DogWakes \/ DogStats \/ DogRenames \/ DogUnmarks

Next ==
  \/ \E h \in Offers : \/ \E v \in Versions : ReceiveOffer(h, v)
                       \/ OfferRefused(h)
                       \/ Verified(h)
                       \/ Stage(h)
                       \/ ClearPrev(h)
                       \/ MoveAside(h)
                       \/ Install(h)
                       \/ WriteMarker(h)
  \/ Restart
  \/ Crash
  \/ Start
  \/ Connect
  \/ Drop
  \/ ConfirmRemovePrev
  \/ ConfirmRemoveMarker
  \/ DogWakes
  \/ DogStats
  \/ DogRenames
  \/ DogUnmarks
  \/ Tick

Spec == Init /\ [][Next]_vars

\* Goroutines run on, the init system restarts the process, time passes.
FairSpec ==
  /\ Spec
  /\ \A h \in Offers : WF_vars(ApplyStep(h))
  /\ WF_vars(Restart) /\ WF_vars(Start) /\ WF_vars(DogSteps) /\ WF_vars(Tick)

-----------------------------------------------------------------------------
(* Properties.                                                             *)

\* Through every file operation, fault and crash of an update, the host keeps
\* a complete binary under one of its two names ("we never leave the host
\* without an agent binary", update.go).  Two things defeat it: two offers
\* applied side by side, where the second os.Remove of .prev can come between
\* the renames of the first, and an offer after a restore that failed.
BinarySurvives == Without({"overlap", "unrestored"}) => self # None \/ prev # None

\* What a rollback would restore has proved itself: it reached a session, unless
\* a second offer moved an executable aside that had never run.
FallbackIsProven == (Without({"overlap"}) /\ prev # None) => prev \in proven

\* An executable that has not proved itself comes from a swap still waiting for
\* its marker, or has a proven version to fall back to and a marker that makes
\* the watchdog use it, until the marker could not be written or two goroutines
\* were at the files together; of the crashes only one between swap and marker counts.
UnprovenHasFallback ==
  (Without({"overlap", "crossed", "unmarked"}) /\ self \in Versions \ proven /\ proc # None)
    => \/ \E h \in Offers : offer[h].pc = "mark"
       \/ PendingMarker /\ prev \in proven

\* A version that cannot connect does not stay, however often the process dies:
\* the watchdog brings back one that can, unless one of the faults has happened.
\* (startUpdateWatchdog: "rolls back to the previous binary if a freshly applied
\* update fails to reach a healthy (connected) state before its deadline".)
DeafIsReplaced == (proc \in Deaf) ~> (proc \in Versions \ Deaf \/ faults # {})

\* What the offers, the confirmation and the watchdog keep of the three files
\* they share without a lock: what a rollback restores has worked, and an
\* executable that has not has such a version behind it.
FallbackInv == TypeOK /\ FallbackIsProven /\ UnprovenHasFallback
=============================================================================
