---------------------------- MODULE MCShopOrder ----------------------------
(* A small instance of ShopOrder: two orders that both want the slot. *)
EXTENDS ShopOrder, TLC

CONSTANTS o1, o2

Alike == Permutations(Order)

\* One or two pieces and all the time there is, and nothing fails...
AllTheTime == now = 0 /\ faults = MaxFaults
\* ...or one piece and something fails, within three units of time...
ShortOfTime == now + 3 = MaxTime /\ faults + 1 = MaxFaults /\ first = 1
\* ...or one piece and two things fail, while no time passes.
AtOnce == now = MaxTime /\ faults = 0 /\ first = 1

MCInit == Init /\ (AllTheTime \/ ShortOfTime \/ AtOnce)
MCSpec == MCInit /\ [][Next]_vars

=============================================================================
