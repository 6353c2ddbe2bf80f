------------------------- MODULE MCNetlinkCollector -------------------------
(* A small instance of the RTNETLINK collector for TLC.  The kernel lives in  *)
(* one of two worlds: one link with an address and two IPv4 default routes,   *)
(* where a delete of the second may omit what tells it from the first; or two *)
(* links, at first both up, with an IPv6 route and a multipath IPv4 default   *)
(* route over both.                                                           *)
EXTENDS NetlinkCollector, TLC

CONSTANTS eth, wlan, addr, r4, r5, r6, multi

VARIABLE world    \* what this kernel may ever have

MCUses == addr :> {eth} @@ r4 :> {eth} @@ r5 :> {eth} @@ r6 :> {eth} @@ multi :> {eth, wlan}
MCDelete == r4 :> {r4} @@ r5 :> {r4, r5} @@ r6 :> {r6} @@ multi :> {multi}
MCRank ==
    LET order == <<r4, r5, r6, multi>>
    IN  [p \in Routes \X Links |->
            2 * (CHOOSE i \in 1 .. 4 : order[i] = p[1]) - IF p[2] = eth THEN 1 ELSE 0]

States(l) == {LinkFact(l, "up"), LinkFact(l, "down")}
OneLink == States(eth) \cup {addr, r4, r5}
TwoLinks == States(eth) \cup States(wlan) \cup {r6, multi}

MCInit ==
    /\ Init
    /\ \/ world = OneLink /\ kernel \subseteq OneLink
       \/ /\ world = TwoLinks
          /\ {LinkFact(eth, "up"), LinkFact(wlan, "up")} \subseteq kernel
          /\ kernel \subseteq TwoLinks

MCNext == Next /\ kernel' \subseteq world /\ UNCHANGED world

MCSpec == MCInit /\ [][MCNext]_<<vars, world>> /\ Fairness
=============================================================================
