------------------------------ MODULE Service ------------------------------
(***************************************************************************)
(* What the server promises its clients, with none of the machinery: a     *)
(* request waits until it is turned away or served, a client is served at  *)
(* most Cap times at once, and once the server closes nobody new comes in  *)
(* and everybody is let go.  Server.tla implements this module.            *)
(***************************************************************************)
EXTENDS Naturals, FiniteSets

CONSTANTS
    Requests,
    Clients,
    NoClient,       \* whose an unused request slot is
    Cap             \* times one client is served at once; 0 is no cap

VARIABLES
    stage,          \* request -> "none", "waiting" or "served"
    owner,          \* request -> the client it is charged to
    open

serviceVars == <<stage, owner, open>>

ServiceInit ==
    /\ stage = [r \in Requests |-> "none"]
    /\ owner = [r \in Requests |-> NoClient]
    /\ open = TRUE

ServedTo(c) == {r \in Requests : stage[r] = "served" /\ owner[r] = c}

Come(r, c) ==
    /\ open
    /\ stage[r] = "none"
    /\ stage' = [stage EXCEPT ![r] = "waiting"]
    /\ owner' = [owner EXCEPT ![r] = c]
    /\ UNCHANGED open

\* A request ends, in whatever stage it is.
Go(r, from) ==
    /\ stage[r] = from
    /\ stage' = [stage EXCEPT ![r] = "none"]
    /\ owner' = [owner EXCEPT ![r] = NoClient]
    /\ UNCHANGED open

Serve(r) ==
    /\ stage[r] = "waiting"
    /\ Cap # 0 => Cardinality(ServedTo(owner[r])) < Cap
    /\ stage' = [stage EXCEPT ![r] = "served"]
    /\ UNCHANGED <<owner, open>>

Shut ==
    /\ open
    /\ open' = FALSE
    /\ UNCHANGED <<stage, owner>>

ServiceNext ==
    \/ Shut
    \/ \E r \in Requests :
          \/ \E c \in Clients : Come(r, c)
          \/ Go(r, "waiting")
          \/ Serve(r)
          \/ Go(r, "served")

ServiceSpec == ServiceInit /\ [][ServiceNext]_serviceVars

\* Nobody waits for ever, and a server that is shut lets everybody go.
FairServiceSpec ==
    /\ ServiceSpec
    /\ \A r \in Requests :
          /\ WF_serviceVars(Go(r, "waiting") \/ Serve(r))
          /\ WF_serviceVars(~open /\ Go(r, "served"))
=============================================================================
