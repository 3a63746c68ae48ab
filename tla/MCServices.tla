----------------------------- MODULE MCServices -------------------------------
(* Four parts of the server that share no state: the images of the account,  *)
(* the backups of the database, the pages of a timeline, and the deliveries  *)
(* with the profile cache. A behaviour is one of one part.                   *)
EXTENDS AvatarUpdate, Backup, Timelines, Delivery, TLC

CONSTANTS r1, r2, r3, k1, k2, d1, d2, w1

VARIABLE part

others == <<vars, backupVars, timelineVars, deliveryVars>>

Symmetry == Permutations(Lookups)

-----------------------------------------------------------------------------
Status(local, public, tagged, author, parent) ==
    [local |-> local, public |-> public, tagged |-> tagged, author |-> author,
     parent |-> parent]

\* A post of the owner, a private one, a reply to it, and one of another server.
Mine(parent)    == Status(TRUE, TRUE, TRUE, "me", parent)
Private(parent) == Status(TRUE, FALSE, TRUE, "me", parent)
Theirs(parent)  == Status(FALSE, TRUE, TRUE, "friend", parent)

News == {Mine(0), Mine(2), Theirs(1)}

Table(rows, times, marked, hidden, list) ==
    [row |-> [i \in 1..Len(rows) |-> rows[i] @@ [time |-> times[i]]],
     marks |-> marked, muted |-> hidden, listed |-> list, pins |-> {1, 2}]

InTurn == <<2, 4, 6, 8>>
Flat  == <<Mine(0), Mine(0), Theirs(0), Mine(0)>>
Chain == <<Mine(0), Mine(1), Private(2), Theirs(0)>>

\* In order; a conversation of three that is muted; marks in one second
\* and against the order of the ids; two rows whose times are the other way.
SomeTables ==
    {Table(Flat, InTurn, <<1, 1, 1, 2, 0>>, {}, {"me"}),
     Table(Flat, InTurn, <<2, 1, 1, 0, 0>>, {2}, {"me", "friend"}),
     Table(Chain, InTurn, <<3, 0, 1, 1, 0>>, {1}, {"me", "friend"}),
     Table(Flat, <<2, 6, 5, 8>>, <<1, 1, 2, 2, 0>>, {1}, {"me"})}

\* A follower whose inbox is the one the actor moves to, and others.
SomeFollowers == {<<"new", "other">>, <<"other">>}

-----------------------------------------------------------------------------
Parts == {"images", "backups", "timelines", "deliveries"}

ServicesInit ==
    /\ part \in Parts
    /\ Init /\ BackupInit /\ TimelineInit /\ DeliveryInit
    \* The parts that a behaviour is not about are in one of their states.
    /\ part # "images" => current = Original
    /\ part # "backups" => seal = Plain
    /\ part # "timelines" =>
           /\ view = "home" /\ marks = <<1, 1, 1, 2, 0>> /\ muted = {}
           /\ reader.ordered /\ reader.min = 0 /\ reader.limit = 1
    /\ part # "deliveries" => inbox = "old" /\ hasKey

ServicesNext ==
    /\ UNCHANGED part
    /\ \/ part = "images" /\ Next /\ UNCHANGED <<backupVars, timelineVars, deliveryVars>>
       \/ part = "backups" /\ BackupNext /\ UNCHANGED <<vars, timelineVars, deliveryVars>>
       \/ part = "timelines" /\ TimelineNext /\ UNCHANGED <<vars, backupVars, deliveryVars>>
       \/ part = "deliveries" /\ DeliveryNext /\ UNCHANGED <<vars, backupVars, timelineVars>>

ServicesSpec == ServicesInit /\ [][ServicesNext]_<<part, others>>
==============================================================================
