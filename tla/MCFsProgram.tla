---------------------------- MODULE MCFsProgram ----------------------------
(***************************************************************************)
(* An instance of FsProgram: configurations of any few statements, and     *)
(* longer ones that start what shares the loop and the process handle.     *)
(***************************************************************************)
EXTENDS FsProgram, MCFsConf

MCTimer(settings) ==
  <<Block("timer")>> \o settings \o <<Set("exec"), End>>

MCTimeout == <<Set("timeout")>>
MCRepeat == <<Set("repeat")>>

MCHttp == <<Block("http"), Set("host"), Set("port"), End>>

MCListener == <<Block("kafka"), Block("topic"), Set("exec"), End, End>>

MCScripts ==
  {<<>>,
   MCTimer(MCTimeout) \o MCTimer(MCTimeout),
   MCTimer(MCTimeout) \o MCTimer(MCRepeat),
   MCTimer(MCTimeout \o MCRepeat),
   MCTimer(MCTimeout) \o MCHttp,
   MCTimer(MCTimeout) \o MCListener}

MCProgramStatements == MCStatements \cup {Set("repeat")}

(* One vector for each way main may go. *)
MCArgvs ==
  {<<>>, <<"other">>, <<"-h", "-f">>, <<"other", "-c">>,
   <<"other", "-f", "other">>}
=============================================================================
