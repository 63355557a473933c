------------------------------ MODULE Parties ------------------------------
(***************************************************************************)
(* The party registry (parties.py): accountable humans and agents, as      *)
(* events on a folder's chain.  Every reader replays the chain to the      *)
(* latest registration and the latest status of each party; that replay is *)
(* the variable party.  agent_uid and the free-text fields are left out.   *)
(***************************************************************************)
EXTENDS Naturals

CONSTANTS Parties, Competences

VARIABLE party

Statuses == {"active", "suspended", "killed"}

Unregistered == [kind |-> "none", status |-> "none", comps |-> {}]

PartyRecord == {Unregistered} \cup
    [kind : {"human", "agent"}, status : Statuses, comps : SUBSET Competences]

ActiveHuman(p) == party[p].kind = "human" /\ party[p].status = "active"

\* Mutant: the status is carried over where there was none.
RegisterParty_NoDefault(p, kind, comps) ==
    party' = [party EXCEPT ![p] = [kind |-> kind, comps |-> comps, status |-> party[p].status]]

\* Mutant: a registration starts afresh.
RegisterParty_Fresh(p, kind, comps) ==
    party' = [party EXCEPT ![p] = [kind |-> kind, comps |-> comps, status |-> "active"]]

\* A later registration replaces the record and keeps the status.
RegisterParty(p, kind, comps) ==
    party' = [party EXCEPT ![p] =
                [kind |-> kind, comps |-> comps,
                 status |-> IF party[p] = Unregistered THEN "active" ELSE party[p].status]]

\* A status for a party nobody registered changes no record.
SetPartyStatus(p, s) ==
    party' = IF party[p] = Unregistered THEN party
             ELSE [party EXCEPT ![p] = [kind |-> party[p].kind, comps |-> party[p].comps,
                                        status |-> s]]
=============================================================================
