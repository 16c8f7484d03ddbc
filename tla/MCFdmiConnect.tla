--------------------------- MODULE MCFdmiConnect ---------------------------
(* Instances of FdmiConnect for TLC. *)
EXTENDS FdmiConnect, TLC

CONSTANTS a, b, s, t        \* two clients and two servers
CONSTANTS a1, a2, a3, b1    \* their calls

\* Client a connects to both servers and once more to the first, b to the first.
Clients == [caller |-> (a1 :> a @@ a2 :> a @@ a3 :> a @@ b1 :> b),
            rank   |-> (a1 :> 0 @@ a2 :> 1 @@ a3 :> 0 @@ b1 :> 0),
            host   |-> (a1 :> s @@ a2 :> t @@ a3 :> s @@ b1 :> s)]

Only(f)       == [c \in Call |-> f[c]]
ClientsCaller == Only(Clients.caller)
ClientsRank   == Only(Clients.rank)
ClientsHost   == Only(Clients.host)
=============================================================================
