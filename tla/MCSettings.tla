---------------------------- MODULE MCSettings ------------------------------
(***************************************************************************)
(* Settings for TLC.                                                       *)
(***************************************************************************)
EXTENDS Settings, TLC

Opt(binary, flags, files) == [binary |-> binary, flags |-> flags, files |-> files]

plugins == ("plugin-dir" :> <<"build", "plugins">>)
subnet(s) == ("track-subnets" :> s)
chain == ("C" :> "given")

Request(binary, flags, files, global, custom, reassign, dynamic) ==
  [binary |-> binary, flags |-> flags, files |-> files, global |-> global, custom |-> custom,
   reassign |-> reassign, dynamic |-> dynamic]

\* With and without node configs that contradict the options, and with files.
MCStartRequests ==
  {Request("new", NoFlags, NoFlags, NoFlags, NoFlags, TRUE, FALSE),
   Request("old", Over(plugins, subnet("s")), NoFlags,
           ("plugin-dir" :> <<"other">>), subnet("t"), FALSE, TRUE),
   Request("new", NoFlags, chain, NoFlags, NoFlags, FALSE, FALSE)}

\* Nothing, the other binary, and each of the other options.
MCRequests ==
  {Nothing, Opt("old", plugins, NoFlags), Opt("new", subnet("s"), NoFlags),
   Opt(NoBinary, NoFlags, chain)}

MCDefaultPort == [n \in {"node1"} |-> 1]

MCBusy == {{}, {1}}

MCOldSnapshots ==
  {[binary |-> "old", flags |-> NoFlags, files |-> DefaultFiles,
    nodes |-> [n \in {"node1"} |->
      Opt("old", [x \in {"build-dir", "whitelisted-subnets", "http-port"} |->
                    IF x = "build-dir" THEN <<"old">> ELSE IF x = "http-port" THEN 1 ELSE "t"],
          DefaultFiles)]]}

=============================================================================
