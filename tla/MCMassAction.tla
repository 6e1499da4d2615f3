---------------------------- MODULE MCMassAction ----------------------------
(* An instance of MassAction for TLC: a customer of two sites, two devices     *)
(* enrolled and a third about to be; one device is of the releases' platform. *)
(* One caller may act on both sites and one on the first only.                *)
EXTENDS MassAction, TLC

CONSTANTS d1, d2, d3, chief, local, r1, r2, s1, s2, b1, b2

MCSiteOf     == d1 :> "north" @@ d2 :> "north" @@ d3 :> "south"
MCCustomerOf == "north" :> "customer" @@ "south" :> "customer"
MCPlatform   == d1 :> "linux" @@ d2 :> "windows" @@ d3 :> "windows"
MCMay        == chief :> {"north", "south"} @@ local :> {"north"}
MCReleasePlatform == [r \in Releases |-> "linux"]
MCSha256     == r1 :> b1 @@ r2 :> b2

NoTarget == [device_ids |-> <<>>, site_id |-> Nil, customer_id |-> Nil]
Fleet    == [NoTarget EXCEPT !.customer_id = "customer"]
Single   == [NoTarget EXCEPT !.device_ids = <<d1>>]
South    == [NoTarget EXCEPT !.site_id = "south"]
Both     == [Fleet EXCEPT !.site_id = "north"]

Req(op, subject, target) == [op |-> op, subject |-> subject, target |-> target]
MCRequests == {Req("dispatch", s1, Single), Req("deploy", Nil, Fleet), Req("deploy", Nil, Both),
               Req("rollout", r1, Fleet), Req("rollout", r2, Single), Req("schedule", s1, Fleet),
               Req("schedule", s2, South)}

Registered == [exists |-> TRUE, url |-> FALSE, key |-> FALSE]
External   == [Registered EXCEPT !.url = TRUE]

MCInit ==
  /\ status = [d \in Devices |-> IF d = d3 THEN "none" ELSE "active"]
  /\ version = [d \in Devices |-> First]
  /\ release \in {r1 :> NoRelease @@ r2 :> External, r1 :> Registered @@ r2 :> External}
  /\ blob = [r \in Releases |-> Nil]
  /\ upload = [r \in Releases |-> NoUpload]
  /\ update = [d \in Devices |-> NoUpdate]
  /\ audit = {} /\ answers = {}
  /\ schedule = [x \in Schedules |-> NoSchedule]
  /\ client = [c \in Callers |-> Idle]
  /\ online = {d \in SwitchedOn : status[d] = "active"}
  /\ running = [d \in Devices |-> First]
  /\ self = [d \in Devices |-> First]
  /\ offer = [d \in Devices |-> [h \in Offers |-> NoOffer]]
  /\ wire = [d \in Devices |-> <<>>]
  /\ swapped = [d \in Devices |-> {}]
  /\ now = 0 /\ events = 0
MCSpec == MCInit /\ [][Next]_vars /\ Fairness
=============================================================================
