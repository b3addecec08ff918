------------------------------ MODULE MCFsConf ------------------------------
(***************************************************************************)
(* Instances of FsConf: the statements of configurations, and the samples  *)
(* of README.md.                                                           *)
(***************************************************************************)
EXTENDS FsConf

Stmt(kind, name) == [kind |-> kind, name |-> name, args |-> "right"]
Block(name) == Stmt("open", name)
Set(name) == Stmt("param", name)
End == Stmt("close", "}")

WrongArgs(s) == [s EXCEPT !.args = "wrong"]

(* Every block, and of the parameters at least one per kind of context and *)
(* per way of looking for it.                                              *)
MCStatements ==
  {Block(n) : n \in {"http", "kafka", "proxy", "topic", "timer", "fs_version"}}
    \cup {Set(n) : n \in {"host", "port", "config", "key_param", "pass_path",
                          "exec", "timeout", "fs_version_art"}}
    \cup {End, WrongArgs(Block("topic"))}

(* The producer of README.md:63-89. *)
MCProducerSample ==
  {<<Block("http"), Set("host"), Set("port"),
    Block("kafka"), Set("config"), Set("config"),
    Set("topic_param"), Set("key_param"),
    Set("default_topic"), Set("default_key"), End, End>>}

MCSampleStatements ==
  MCStatements \cup {Set(n) : n \in {"topic_param", "default_topic",
                                     "default_key"}}
MCNoScript == {<<>>}
=============================================================================
