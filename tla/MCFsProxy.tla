----------------------------- MODULE MCFsProxy -----------------------------
(***************************************************************************)
(* Instances of FsProxy: the texts to read and the requests to serve.      *)
(***************************************************************************)
EXTENDS FsProxy

Text(source, room, first, symbols, length) ==
  [source |-> source, room |-> room, start |-> first, symbols |-> symbols,
   length |-> length]

MCChars == Blank \cup Special \cup {"t", "tab", "x", "n", "p"} \cup Digits

(* Quotes and backslashes; blocks, comments and dollars; the other quote;  *)
(* and arguments of pass_path.  A buffer of three bytes is refilled within *)
(* every text, one of thirty never.                                        *)
MCTexts ==
  {Text("file", 3, <<>>, {" ", ";", Escape, DQuote, "t"}, 6),
   Text("file", 3, <<>>, {" ", "{", "}", ";", "#", "lf", "$"}, 5),
   Text("file", 3, <<>>, {" ", ";", SQuote, DQuote, "$", "{"}, 5),
   Text("cmdline", 3, <<>>, {" ", ";", DQuote, "x", "}"}, 5),
   Text("file", 30, <<"n", " ">>, {"$", "{", "}", "p", "x", ";"}, 5),
   Text("file", 30, <<"n", " ", "$", "{", "p">>,
        {"$", "}", "1", "2", "x", ";"}, 5),
   Text("file", 30, <<"n", " ", "x", "$", "{", "p", "2", "}">>,
        {"$", "{", "p", "1", "}", ";"}, 6),
   Text("file", 30, <<"n", " ">>, {Escape, "t", "x", ";", "$"}, 5),
   Text("file", 3, <<"n", " ">>, {DQuote, "$", "{", "x", ";"}, 4),
   Text("file", 30, <<"n", " ", "x", ";", "n", " ", "x", ";">>, {" "}, 1)}

MCGroupNames == [name \in {<<"x">>} |-> 1]

(* Two groups: both matched, the last not, none, and an empty first.       *)
MCRequests ==
  {<<<<"x">>, <<"1">>, <<"2">>>>, <<<<"x">>, <<"1">>>>, <<<<"x">>>>,
   <<<<"x">>, <<>>, <<"2">>>>}
=============================================================================
