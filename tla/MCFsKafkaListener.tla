------------------------- MODULE MCFsKafkaListener -------------------------
(***************************************************************************)
(* Instances of FsKafkaListener: names of three characters, of which the   *)
(* last may be all that tells two of them apart.                           *)
(***************************************************************************)
EXTENDS FsKafkaListener

(* Blocks whose names already differ before their last characters, and a   *)
(* name that none listens to (a subscription may be a pattern).            *)
MCListened == <<<<1, 1, 1>>, <<1, 2, 1>>, <<2, 1, 1>>>>
MCNames == {<<1, 1, 1>>, <<1, 2, 1>>, <<2, 1, 1>>, <<2, 2, 1>>}

(* With room for four arguments and their terminator: one exec that passes *)
(* the key on, one with as many arguments as fit, and one with one more.   *)
MCExecs == <<<<"text", "key">>,
             <<"text", "text", "text", "topic">>,
             <<"text", "text", "text", "text", "topic">>>>

(* Two blocks such as listen_topic1 and listen_topic2. *)
MCNumbered == <<<<1, 1, 1>>, <<1, 1, 2>>>>
MCNumberedNames == {<<1, 1, 1>>, <<1, 1, 2>>}

MCNumberedExecs == <<<<"text">>, <<"text">>>>

(* The block of README.md:29-36, and messages of its topic. *)
MCSampleListened == <<<<1, 1, 1>>>>
MCSampleNames == {<<1, 1, 1>>}
MCSampleExecs == <<<<"text", "text", "topic", "key">>>>
=============================================================================
