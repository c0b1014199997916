---------------------------- MODULE MCDeployment ----------------------------
(* Small instances of a deployment for TLC.                                *)
EXTENDS Deployment

CONSTANTS api, web

MCListing == <<Account, api, web>>

\* A file with one client, one with both that switches the first off, and one that
\* switches the realm off.
Says(id, service) == [id |-> id, secret |-> Preset, enabled |-> None, service |-> service]
ShortFile == [enabled |-> None, clients |-> <<Says(api, "on")>>]
OffFile   == [enabled |-> None,
              clients |-> <<Says(web, "on"), [Says(api, "off") EXCEPT !.enabled = "off"]>>]
DownFile  == [enabled |-> "off", clients |-> <<>>]
MCFiles   == {ShortFile, OffFile, DownFile}

\* A good configuration, and others that differ from it in a thing or two.
Good == [inline |-> TRUE, path |-> FALSE, access |-> "a", refresh |-> "b",
         accessLife |-> [num |-> 15, unit |-> "m"],
         refreshLife |-> [num |-> 7, unit |-> "d"],
         email |-> TRUE, baseUrl |-> None, verification |-> FALSE, atomic |-> TRUE,
         store |-> {}, sender |-> None, renderer |-> None, renders |-> {}]
MCOptions == {
    Good,
    [Good EXCEPT !.inline = FALSE, !.path = TRUE, !.verification = TRUE,
                 !.store = {"useClass"}, !.sender = {"useFactory"}, !.email = FALSE],
    [Good EXCEPT !.atomic = FALSE, !.renderer = {"useExisting"}, !.renders = Templates],
    [Good EXCEPT !.refresh = "a"],
    [Good EXCEPT !.email = FALSE, !.accessLife = [num |-> 15, unit |-> "w"]],
    [Good EXCEPT !.store = None, !.renderer = {}, !.renders = {"welcome"}]}
MCPasswords == {Demands, Demands \ {"digit"}}

Symmetry == Permutations(Jobs)
=============================================================================
