-------------------------- MODULE MCTransactionSend --------------------------
(* Two handlers at work on the requests each configuration chooses from. *)
EXTENDS TransactionSend, TLC

Symmetric == Permutations(Requests)

(* bob is registered in both groups, alice in hers; carol is in no chain. *)
Users    == {<<"alice", "own">>, <<"bob", "own">>, <<"carol", "own">>, <<"bob", "other">>}
Humans   == {<<"bob", "own">>, <<"bob", "other">>}
Projects == {<<"alice", "own">>}

MkJob(kind, sender, recipient, amount, age, nr, cross) ==
    [kind |-> kind, sender |-> sender, recipient |-> recipient,
     amount |-> amount, age |-> age, nr |-> nr, cross |-> cross,
     decay |-> age > 0 /\ ~cross]

(* Transfers within a group and across groups. *)
TransferJobs == {MkJob("transfer", "alice", "bob", 2, 0, FALSE, c) : c \in BOOLEAN}
(* Creations of which two together exceed the limit. *)
CreationJobs == {MkJob("creation", "alice", "bob", a, 0, FALSE, FALSE) : a \in {1, 2}}
(* Registrations of a new address: old but without a transaction nr, at    *)
(* the code's limit, and an archived one that moves the address.           *)
RegisterJobs == {MkJob("registerAddress", "carol", "carol", 0, 61, FALSE, FALSE),
                 MkJob("registerAddress", "carol", "carol", 0, 60, TRUE, FALSE),
                 MkJob("registerAddress", "carol", "carol", 0, 61, TRUE, TRUE)}
(* A recipient nobody knows, one that is not registered, and a transfer    *)
(* one hour old whose decay is compared.                                   *)
OddJobs == {MkJob("creation", "alice", "nobody", 1, 0, FALSE, FALSE),
            MkJob("creation", "alice", "carol", 1, 61, TRUE, FALSE),
            MkJob("transfer", "alice", "carol", 2, 1, TRUE, FALSE)}
AllJobs == TransferJobs \cup CreationJobs \cup RegisterJobs \cup OddJobs
=============================================================================
