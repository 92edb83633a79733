--------------------------- MODULE MCFleetThreads ---------------------------
(***************************************************************************)
(* Two clients and one agent that polls up to three times.  Client "a" is  *)
(* a mirror source that submits an intent and then, under the same key, a  *)
(* second one; client "o" is an operator with two commands.                *)
(***************************************************************************)
EXTENDS FleetThreads, TLC

MCProgram == "a" :> <<"i1", "i2">> @@ "o" :> <<"c1", "c2">>
MCExpiresAt == "i1" :> 2 @@ "i2" :> 3 @@ "c1" :> 1 @@ "c2" :> 2

\* Each client uses keys of its own, and reuses them.
MCOwnKeys == "i1" :> "k1" @@ "i2" :> "k1" @@ "c1" :> "k2" @@ "c2" :> "k2"

\* The operator's first command has the key of the source's intents.
MCSharedKey == "i1" :> "k1" @@ "i2" :> "k1" @@ "c1" :> "k1" @@ "c2" :> "k2"

\* What the theorems about the threads ask of the requests; keys are shared on purpose
\* in one of the instances.
ASSUME RequestsApart == PostedOnce /\ OneConnection /\ (KeyOf # MCSharedKey => OwnKeys)
=============================================================================
