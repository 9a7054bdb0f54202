------------------------------ MODULE Startup -------------------------------
(***************************************************************************)
(* main and init (main.cpp): ui.conf, the server and group files and the   *)
(* templates are loaded one after the other, and the process listens when  *)
(* none of the loads has failed.                                           *)
(*                                                                         *)
(* Each load is a step of its component's module.  What may be missing     *)
(* outside of them is fixed at the start: a file that cannot be opened     *)
(* where that is fatal, memory, the port.                                  *)
(***************************************************************************)
EXTENDS Conf, ServerConf, TemplateLoad

CONSTANTS
  Sound,       \* the files of Files that stand for all templates being right
  GoOnLines    \* bound: after a longer ui.conf the start is not followed on

ASSUME StartupAssumption ==
  /\ Sound \in Files
  /\ GoOnLines \in 0..ConfLines

VARIABLES
  stage,    \* what init or main is doing
  missing,  \* what the process does not get
  varied    \* bound: the one part of the environment that is not at its plainest

startVars == <<stage, missing, varied>>
vars == <<startVars, confVars, serverVars, templateVars>>

Outages == {"ui.conf", "server.conf", "memory", "port"}
Stages == {"conf", "servers", "memory", "templates", "port", "listening", "exited"}

StartupTypeOK ==
  /\ ConfTypeOK /\ ServersTypeOK /\ TemplatesTypeOK
  /\ stage \in Stages
  /\ missing \subseteq Outages
  /\ stage = "conf" => file = "server" /\ state = "table"
  /\ stage \in {"templates", "port", "listening"} => conf_loaded /\ file = "done"

Init ==
  /\ ConfInit /\ ServersInit /\ TemplatesInit
  /\ stage = "conf"
  /\ varied \in {"ui.conf", "servers", "templates", "outages"}
  /\ missing \in SUBSET (IF varied = "outages" THEN Outages ELSE {})
  /\ varied # "templates" => files = Sound

\* A call of init that fails before it has read anything, or server_listen.
Fails(what) == what \in missing /\ stage' = "exited" /\ UNCHANGED <<missing, varied>>
GoesOn(what, next) == what \notin missing /\ stage' = next /\ UNCHANGED <<missing, varied>>

\* load_conf.
LoadConf ==
  /\ stage = "conf"
  /\ \/ Fails("ui.conf") /\ UNCHANGED confVars
     \/ /\ ConfNext /\ (varied = "ui.conf" \/ conf_loaded')
        /\ GoesOn("ui.conf", IF conf_loaded' THEN "servers" ELSE stage)
  /\ UNCHANGED <<serverVars, templateVars>>

\* server_conf_load.
ServerConfLoad ==
  /\ stage = "servers" /\ nread <= GoOnLines
  /\ \/ Fails("server.conf") /\ UNCHANGED serverVars
     \/ /\ ServersNext /\ (varied = "servers" \/ lines' = <<>>)
        /\ GoesOn("server.conf", IF file' = "done" THEN "memory" ELSE stage)
  /\ UNCHANGED <<confVars, templateVars>>

\* template_init allocates g_pTemplate.
template_init ==
  /\ stage = "memory"
  /\ Fails("memory") \/ GoesOn("memory", "templates")
  /\ UNCHANGED <<confVars, serverVars, templateVars>>

\* template_load.
LoadTemplates ==
  /\ stage = "templates"
  /\ TemplatesNext
  /\ stage' = CASE state' = "failed" -> "exited"
                [] state' = "loaded" -> "port"
                [] OTHER             -> stage
  /\ UNCHANGED <<missing, varied, confVars, serverVars>>

\* server_listen.
Listen ==
  /\ stage = "port"
  /\ Fails("port") \/ GoesOn("port", "listening")
  /\ UNCHANGED <<confVars, serverVars, templateVars>>

Next == LoadConf \/ ServerConfLoad \/ template_init \/ LoadTemplates \/ Listen

Spec == Init /\ [][Next]_vars

-----------------------------------------------------------------------------
\* init, template_load: the process gives up only for want of something without
\* which a load fails as a whole, or for a template that is broken, wherever in
\* the list it stands; it listens only if there was nothing of the kind; and
\* before that no template can be found by its name.
ListensIffLoadable ==
  /\ stage = "exited" => missing # {} \/ BadTemplates
  /\ stage = "listening" => missing = {} /\ ~BadTemplates
  /\ state # "loaded" => \A n \in DOMAIN files.disk : temp_get_template_index(n) = 0
=============================================================================
