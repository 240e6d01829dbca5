---------------------------- MODULE MCNetConfig ----------------------------
(***************************************************************************)
(* A device whose network key is read as KEY and as KEY2.  A key of two    *)
(* bytes stands for the sixteen; 9 is the sequence number that KEY2 has    *)
(* before them.                                                            *)
(***************************************************************************)
EXTENDS NetConfig, TLC

MCReads      == <<"MAC", "CHANNEL_MASK", "KEY", "KEY2">>
MCDevValues  == "CHANNEL_MASK" :> {<<11>>} @@ "KEY" :> {<<1, 2>>} @@ "MAC" :> {<<1>>}
MCUserValues == "CHANNEL_MASK" :> {<<11>>, <<15>>} @@ "KEY" :> {<<3, 4>>} @@ "MAC" :> {<<2>>}
MCDefault    == "CHANNEL_MASK" :> <<11>> @@ "KEY" :> <<0, 0>> @@ "KEY2" :> <<>> @@ "MAC" :> <<0>>
MCCorrection == "EP1" :> (<<0>> :> <<2>>)
============================================================================
