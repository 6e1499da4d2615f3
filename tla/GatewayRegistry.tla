--------------------------- MODULE GatewayRegistry --------------------------
(***************************************************************************)
(* The gateway's connection handlers and its registry for one device       *)
(* (server/internal/gateway/gateway.go, registry.go), while an operator    *)
(* decommissions it (api.handleDecommissionDevice).  The registry is a map *)
(* by device and its lock covers one map access at a time, so devices do   *)
(* not interact and every access is a step of its own here.                *)
(*                                                                         *)
(* A handler of connection c goes through                                  *)
(*   challenge   the nonce is sent, the response is awaited                *)
(*   verify      LookupDevice found the device active                      *)
(*   replace     Registry.add has stored c and will close prev[c]          *)
(*   serve       the read loop                                             *)
(*   remove      the deferred Registry.remove                              *)
(*   done                                                                  *)
(***************************************************************************)
EXTENDS Naturals

CONSTANTS Sockets, \* identities of the connections, each used once (bound)
          NoSocket \* not a connection

ASSUME NoSocketAssumption == NoSocket \notin Sockets

VARIABLES
  pc,          \* pc[c]: where c's handler stands
  prev,        \* prev[c]: the connection Registry.add found, to be closed
  closed,      \* connections whose WebSocket the server has closed
  entry,       \* Registry.conns[device]
  adds,        \* history: calls of Registry.add so far
  order,       \* history: order[c] = n when c was the n-th connection added
  device,      \* devices.status (the credentials are revoked with it)
  decom,       \* handleDecommissionDevice: its step and the connection it holds
  agent,       \* the agent: "dialing", "up" (on agentSocket) or "stopped"
  agentSocket, \* the connection of connectAndServe
  noticed      \* connections on which a Decommission frame was written

handlerVars == <<pc, prev, closed, entry, adds, order>>
agentEnd    == <<agent, agentSocket>>
decomVars   == <<device, decom, noticed>>
registryVars == <<handlerVars, agentEnd, decomVars>>

Steps == {"idle", "challenge", "verify", "replace", "serve", "remove", "done"}

RegistryTypeOK ==
  /\ pc \in [Sockets -> Steps]
  /\ prev \in [Sockets -> Sockets \cup {NoSocket}]
  /\ closed \subseteq Sockets
  /\ entry \in Sockets \cup {NoSocket}
  /\ adds \in Nat
  /\ order \in [Sockets -> Nat]
  /\ device \in {"active", "decommissioned"}
  /\ decom \in [pc : {"idle", "send", "write", "kick", "close", "done"}, conn : Sockets \cup {NoSocket}]
  /\ agent \in {"dialing", "up", "stopped"}
  /\ agentSocket \in Sockets \cup {NoSocket}
  /\ noticed \subseteq Sockets

RegistryInit ==
  /\ pc = [c \in Sockets |-> "idle"]
  /\ prev = [c \in Sockets |-> NoSocket]
  /\ closed = {}
  /\ entry = NoSocket
  /\ adds = 0
  /\ order = [c \in Sockets |-> 0]
  /\ device = "active"
  /\ decom = [pc |-> "idle", conn |-> NoSocket]
  /\ agent = "dialing"
  /\ agentSocket = NoSocket
  /\ noticed = {}

-----------------------------------------------------------------------------
(* HandleConnect.                                                          *)

\* The agent dials and HandleConnect accepts.
Accept(c) ==
  /\ agent = "dialing"
  /\ pc[c] = "idle"
  /\ pc' = [pc EXCEPT ![c] = "challenge"]
  /\ agent' = "up"
  /\ agentSocket' = c
  /\ UNCHANGED <<prev, closed, entry, adds, order, decomVars>>

\* authenticate: LookupDevice joins the unrevoked credentials and the status
\* must be active; otherwise the connection is closed with a policy violation.
LookupDevice(c) ==
  /\ pc[c] = "challenge"
  /\ IF device = "active"
     THEN /\ pc' = [pc EXCEPT ![c] = "verify"]
          /\ UNCHANGED closed
     ELSE /\ pc' = [pc EXCEPT ![c] = "done"]
          /\ closed' = closed \cup {c}
  /\ UNCHANGED <<prev, entry, adds, order, agentEnd, decomVars>>

\* The handshake times out, the agent has gone or its signature is bad.
AuthFails(c) ==
  /\ pc[c] \in {"challenge", "verify"}
  /\ pc' = [pc EXCEPT ![c] = "done"]
  /\ closed' = closed \cup {c}
  /\ UNCHANGED <<prev, entry, adds, order, agentEnd, decomVars>>

\* Registry.add under its lock.
AddStore(c) ==
  /\ pc[c] = "verify"
  /\ prev' = [prev EXCEPT ![c] = entry]
  /\ entry' = c
  /\ adds' = adds + 1
  /\ order' = [order EXCEPT ![c] = adds']
  /\ pc' = [pc EXCEPT ![c] = "replace"]
  /\ UNCHANGED <<closed, agentEnd, decomVars>>

\* A variant that leaves the connection it replaces open.
AddKeepsPrevious(c) ==
  /\ pc[c] = "replace"
  /\ pc' = [pc EXCEPT ![c] = "serve"]
  /\ prev' = [prev EXCEPT ![c] = NoSocket]
  /\ UNCHANGED <<closed, entry, adds, order, agentEnd, decomVars>>

\* The rest of add: close the connection that was replaced.
AddClosePrevious(c) ==
  /\ pc[c] = "replace"
  /\ closed' = closed \cup ({prev[c]} \ {NoSocket})
  /\ prev' = [prev EXCEPT ![c] = NoSocket]
  /\ pc' = [pc EXCEPT ![c] = "serve"]
  /\ UNCHANGED <<entry, adds, order, agentEnd, decomVars>>

\* serve's Read fails: the connection was closed, the agent hung up or was
\* silent for readDeadline.  The WebSocket library closes a connection whose
\* Read failed.  (A frame that does not decode would end the handler and leave
\* the socket open; the agent writes encoded envelopes only.)
ServeReturns(c) ==
  /\ pc[c] = "serve"
  /\ pc' = [pc EXCEPT ![c] = "remove"]
  /\ closed' = closed \cup {c}
  /\ UNCHANGED <<prev, entry, adds, order, agentEnd, decomVars>>

\* A variant of remove that drops the mapping whatever it points at.
RemoveAny(c) ==
  /\ pc[c] = "remove"
  /\ entry' = NoSocket
  /\ pc' = [pc EXCEPT ![c] = "done"]
  /\ UNCHANGED <<prev, closed, adds, order, agentEnd, decomVars>>

\* Registry.remove, if the mapping still points at c; the handler returns.
Remove(c) ==
  /\ pc[c] = "remove"
  /\ entry' = IF entry = c THEN NoSocket ELSE entry
  /\ pc' = [pc EXCEPT ![c] = "done"]
  /\ UNCHANGED <<prev, closed, adds, order, agentEnd, decomVars>>

-----------------------------------------------------------------------------
(* handleDecommissionDevice.                                               *)

\* The transaction that revokes the device and its credentials.  Only a
\* process that runs the gateway goes on to notify and disconnect the agent;
\* with the gateway elsewhere (Gateway is nil) the handler is done, and the
\* connection lives on until it breaks.
DecommissionDevice(colocated) ==
  /\ device = "active"
  /\ decom.pc = "idle"
  /\ device' = "decommissioned"
  /\ decom' = [decom EXCEPT !.pc = IF colocated THEN "send" ELSE "done"]
  /\ UNCHANGED <<handlerVars, agentEnd, noticed>>

\* Registry.Send looks the connection up ...
SendLookup ==
  /\ decom.pc = "send"
  /\ decom' = IF entry = NoSocket THEN [pc |-> "kick", conn |-> NoSocket]
                              ELSE [pc |-> "write", conn |-> entry]
  /\ UNCHANGED <<handlerVars, agentEnd, device, noticed>>

\* ... and writes the Decommission frame without the lock.
SendWrite ==
  /\ decom.pc = "write"
  /\ noticed' = noticed \cup ({decom.conn} \ closed)
  /\ decom' = [pc |-> "kick", conn |-> NoSocket]
  /\ UNCHANGED <<handlerVars, agentEnd, device>>

\* A variant of Kick that gives up after the frame.
KickNobody ==
  /\ decom.pc = "kick"
  /\ decom' = [pc |-> "done", conn |-> NoSocket]
  /\ UNCHANGED <<handlerVars, agentEnd, device, noticed>>

\* Registry.Kick looks the connection up again ...
KickLookup ==
  /\ decom.pc = "kick"
  /\ decom' = IF entry = NoSocket THEN [pc |-> "done", conn |-> NoSocket]
                              ELSE [pc |-> "close", conn |-> entry]
  /\ UNCHANGED <<handlerVars, agentEnd, device, noticed>>

\* ... and closes it.
KickClose ==
  /\ decom.pc = "close"
  /\ closed' = closed \cup {decom.conn}
  /\ decom' = [pc |-> "done", conn |-> NoSocket]
  /\ UNCHANGED <<pc, prev, entry, adds, order, agentEnd, device, noticed>>

-----------------------------------------------------------------------------
(* The agent's connectAndServe.                                            *)

\* A Decommission frame stops the agent for good.
ReadDecommission ==
  /\ agent = "up"
  /\ agentSocket \in noticed
  /\ agent' = "stopped"
  /\ agentSocket' = NoSocket
  /\ UNCHANGED <<handlerVars, decomVars>>

\* Any read error sends it back to dialing.
Redial ==
  /\ agent = "up"
  /\ agent' = "dialing"
  /\ agentSocket' = NoSocket
  /\ UNCHANGED <<handlerVars, decomVars>>

-----------------------------------------------------------------------------
HandlerStep(c) == LookupDevice(c) \/ AddStore(c) \/ AddClosePrevious(c) \/ Remove(c)
DecomStep      == SendLookup \/ SendWrite \/ KickLookup \/ KickClose

RegistryNext ==
  \/ \E c \in Sockets : \/ Accept(c)
                        \/ LookupDevice(c)
                        \/ AuthFails(c)
                        \/ AddStore(c)
                        \/ AddClosePrevious(c)
                        \/ ServeReturns(c)
                        \/ Remove(c)
  \/ \E colocated \in BOOLEAN : DecommissionDevice(colocated)
  \/ SendLookup
  \/ SendWrite
  \/ KickLookup
  \/ KickClose
  \/ ReadDecommission
  \/ Redial

RegistrySpec == RegistryInit /\ [][RegistryNext]_registryVars

\* Handlers run on, a Read returns when the connection was closed or the agent
\* is no longer on it (readDeadline), and a started decommission goes through.
\* Agents and operators owe nothing.
RegistryFairSpec ==
  /\ RegistrySpec
  /\ \A c \in Sockets : /\ WF_registryVars(HandlerStep(c))
                        /\ WF_registryVars((c \in closed \/ agentSocket # c) /\ ServeReturns(c))
  /\ WF_registryVars(DecomStep)

-----------------------------------------------------------------------------
(* Properties.                                                             *)

\* The registry never names a connection whose handler has finished, so a
\* Send or a Kick never works on a connection nobody serves.
NoDanglingEntry == entry # NoSocket => pc[entry] \in {"replace", "serve", "remove"}

\* The late remove of an old handler never unregisters a newer connection:
\* the connection added last stays registered until its own handler ends.
NewestIsRegistered ==
  \A c \in Sockets : (order[c] = adds /\ pc[c] \in {"replace", "serve", "remove"}) => entry = c

\* registry.go: "A device has at most one connection; a newer connection
\* replaces (and closes) the older one": an open served connection is the
\* registered one or about to be closed by the add that replaced it.
OneLiveConnection ==
  \A c \in Sockets :
    (pc[c] \in {"replace", "serve"} /\ c \notin closed /\ c # entry)
      => \E d \in Sockets : pc[d] = "replace" /\ prev[d] = c

\* A connection the device had in the registry when it was decommissioned by a
\* process that runs the gateway is closed, also when newer connections come
\* between the two look-ups.
ServedIsCutOff ==
  \A c \in Sockets : (entry = c /\ decom.pc = "send") ~> (c \in closed)

\* What Registry.add and Registry.remove keep, with the mutex around the map
\* and nothing around the connections: the map names a connection somebody
\* serves, and of those the one added last.
RegistryInv == RegistryTypeOK /\ NoDanglingEntry /\ NewestIsRegistered
=============================================================================
