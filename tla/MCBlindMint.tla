---------------------------- MODULE MCBlindMint ----------------------------
(* BlindMint on a ladder of 1 and 2, with a contract among the payees. *)
EXTENDS MintRefinement

CONSTANTS alice, eve, forwarder, treasury

MCAccounts == {alice, eve, forwarder, treasury}
MCDenoms == {1, 2}
MCSigned == {<<1, alice>>, <<1, eve>>, <<2, eve>>}

(* Announcements of at most two notes: right ones, and ones with a point    *)
(* twice or out of range, a denomination nobody knows or a wrong sum.       *)
MCReports ==
    [id : Ids,
     points : {<<>>, <<0>>, <<0, 1>>, <<0, 0>>, <<2>>, <<2, 2>>},
     denoms : {<<>>, <<1>>, <<2>>, <<7>>, <<1, 1>>}]

=============================================================================
