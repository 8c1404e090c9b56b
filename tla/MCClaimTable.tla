---------------------------- MODULE MCClaimTable ----------------------------
(* Two peers, addresses of one two-bit byte, a range of each specificity    *)
(* and announcements that overlap, shrink, reorder and repeat.              *)
EXTENDS ClaimTable, TLC

MCAddresses == {<< <<0, 1>> >>, << <<1, 0>> >>}
All == [base |-> << <<0, 0>> >>, prefix_len |-> 0]
Lower == [base |-> << <<0, 0>> >>, prefix_len |-> 1]
MCAnnouncements == {<<>>, <<All>>, <<All, Lower>>, <<Lower, All>>, <<Lower, Lower>>}

PeerSymmetry == Permutations(Peer)
=============================================================================
