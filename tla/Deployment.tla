----------------------------- MODULE Deployment -----------------------------
(***************************************************************************)
(* From a configuration with mistakes to a server that serves: create_app() *)
(* loads the settings or refuses to start, the operator corrects what the    *)
(* error names and starts again, and the process that starts runs its        *)
(* lifespan.                                                               *)
(***************************************************************************)
EXTENDS Configuration, Lifespan

CONSTANTS
    Configurations,  \* what the operator may begin with
    HostLists        \* the lists of trusted hosts the operator may write

\* The fields that are flags have been parsed, and the hosts are a list.
ASSUME DeploymentAssumption ==
    /\ HostLists \subseteq Seq(Hosts)
    /\ \A c \in Configurations :
          /\ DOMAIN c = DOMAIN Good
          /\ c.secure \in Values.secure
          /\ c.old_secure \in Values.old_secure
          /\ c.trusted_hosts \in Seq(Hosts)

VARIABLES
    config,    \* the settings, in .env and in the environment
    launched,  \* the process has got past create_app()
    error,     \* what the last start was refused for, until it is corrected
    told       \* history: the problems the checks of production have named so far

deploymentVars == <<vars, config, launched, error, told>>

DeploymentInit ==
    /\ Init
    /\ config \in Configurations
    /\ launched = FALSE
    /\ error = {}
    /\ told = {}

\* create_app() gets its settings and builds the application.
Launch ==
    /\ ~launched /\ error = {}
    /\ Errors(config) = {}
    /\ launched' = TRUE
    /\ UNCHANGED <<vars, config, error, told>>

\* Settings() raises: the process ends before its lifespan begins.
LaunchRefused ==
    /\ ~launched /\ error = {}
    /\ Errors(config) # {}
    /\ error' = Errors(config)
    /\ told' = IF FirstErrors(PartErrors(config)) = {} THEN told \cup error' ELSE told
    /\ UNCHANGED <<vars, config, launched>>

\* The hosts that the message asks for: without "*", or with the domain.
AskedHosts(hosts) == IF "*" \in hosts THEN hosts \ {"*"} ELSE hosts \cup {"api"}

\* What the operator may do about the trusted hosts: replace them, or do just
\* what the message asks for, in any order.
CorrectedHosts(hosts) ==
    {Good.trusted_hosts}
        \cup {list \in HostLists : ToSet(list) = AskedHosts(ToSet(hosts))}

\* The settings that the error asks the operator to change.
Named == {SettingOf(problem) : problem \in error}

\* Everything the error names is corrected, and an old name renamed: its value
\* goes to the setting that has the new name.
Correct ==
    /\ error # {}
    /\ \E hosts \in CorrectedHosts(config.trusted_hosts) :
          config' = [s \in DOMAIN config |->
              IF s \in Named THEN IF s = "trusted_hosts" THEN hosts ELSE Good[s]
              ELSE IF \E old \in Named \cap DOMAIN Renamed : Renamed[old] = s
              THEN config[CHOOSE old \in DOMAIN Renamed : Renamed[old] = s]
              ELSE config[s]]
    /\ error' = {}
    /\ UNCHANGED <<vars, launched, told>>

\* The lifespan of the process that has started.
Run(step) == launched /\ step /\ UNCHANGED <<config, launched, error, told>>

Deploy == Launch \/ LaunchRefused \/ Correct

DeploymentNext == Deploy \/ Run(Next)

\* The operator goes on until the process starts; then as in Lifespan.
DeploymentFairness ==
    /\ WF_deploymentVars(Deploy)
    /\ WF_deploymentVars(Run(Startup \/ Failure))
    /\ WF_deploymentVars(Run(Closing))

DeploymentSpec ==
    DeploymentInit /\ [][DeploymentNext]_deploymentVars /\ DeploymentFairness

----------------------------------------------------------------------------
(* Properties                                                              *)

\* In any process that starts, the browser keeps the refresh cookie as the
\* settings describe it; otherwise the login would seem to work and every
\* refresh would answer 401 (follow_the_host_prefix, l. 79-94, with the check of
\* AUTH_COOKIE_SECURE in production_problems).  In development, SameSite=None
\* without Secure is the developer's own choice.
CookieIsKept ==
    launched => /\ KeepsHostPrefix(config)
                /\ IsDevelopment(config) \/ KeepsSameSite(config)

\* Outside development, a process that serves passes its own health check,
\* whatever the list of trusted hosts is after all corrections, with one
\* exception: the first host is written with a port and not also without it.
\* No check refuses such a host, and healthcheck.py sends it as it is ("so the
\* two cannot disagree", l. 6).
HealthcheckAgrees ==
    LET hosts == config.trusted_hosts
    IN  pc = "serving" /\ ~IsDevelopment(config)
            => (Trusted(hosts, HostHeader(hosts)) <=>
                   WithoutPort(Head(hosts)) \in ToSet(hosts))

\* "All problems in one error: a deploy should not need one restart per mistake"
\* (Settings.refuse_development_values_outside_development, l. 34-46): once the
\* checks of production have refused a start, a later start is refused at most
\* once more, and for one problem: hosts that are all local, which a "*" among
\* them had hidden.
AllAtOnce ==
    [][told # {} /\ error = {} /\ error' # {} =>
          /\ error' = {"local_hosts"}
          /\ "any_host" \in told /\ "local_hosts" \notin told]_deploymentVars

\* An operator who corrects what each error names gets the process started: no
\* error names a setting whose correction does not help.
CorrectionsHelp == <>launched
=============================================================================
