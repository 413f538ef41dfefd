--------------------------- MODULE DeploymentProofs ---------------------------
(***************************************************************************)
(* Proofs about Deployment, for any configurations the operator may begin   *)
(* with and any lists of trusted hosts the operator may write.              *)
(***************************************************************************)
EXTENDS Deployment, LifespanProofs

----------------------------------------------------------------------------
(* The server process of a deployment is one of Lifespan.                   *)

\* A deployment adds nothing to the lifespan of the process: what is proved of
\* Lifespan holds of the process that create_app() has let start.
THEOREM DeploymentRunsLifespan == DeploymentSpec => Spec
<1>1. DeploymentInit => Init
  BY DEF DeploymentInit
<1>2. [DeploymentNext]_deploymentVars => [Next]_vars
  BY DEF DeploymentNext, Deploy, Launch, LaunchRefused, Correct, Run, deploymentVars
<1> QED
  BY <1>1, <1>2, PTL DEF DeploymentSpec, Spec

\* Services are closed, and requests served, as in the lifespan alone.
THEOREM ServicesOfDeployment ==
  DeploymentSpec => /\ [](TypeOK /\ ClosedUnlessCut /\ RequestsFindServices)
                    /\ ClosedInReverse
BY DeploymentRunsLifespan, TypeCorrect, NothingStaysOpen, ServicesFound, ReverseOrder,
   PTL

----------------------------------------------------------------------------
(* The operators of Configuration.                                          *)

\* Settings() gets past its parts exactly when no part refuses anything.
LEMMA PartsPass ==
  ASSUME NEW c
  PROVE  FirstErrors(PartErrors(c)) = {} <=>
            /\ Invalid(c, {"environment"}) = {} /\ AuthCookieErrors(c) = {}
            /\ Invalid(c, {"pool_size"}) = {} /\ Invalid(c, {"public_url"}) = {}
            /\ Invalid(c, {"max_body_size"}) = {}
<1> DEFINE parts == PartErrors(c)
           raising == {i \in DOMAIN parts : parts[i] # {}}
           first == CHOOSE i \in raising : \A j \in raising : i <= j
<1>1. /\ DOMAIN parts = 1..5
      /\ parts[1] = Invalid(c, {"environment"}) /\ parts[2] = AuthCookieErrors(c)
      /\ parts[3] = Invalid(c, {"pool_size"}) /\ parts[4] = Invalid(c, {"public_url"})
      /\ parts[5] = Invalid(c, {"max_body_size"})
  BY DEF PartErrors
<1>2. CASE raising = {}
  BY <1>1, <1>2 DEF FirstErrors
<1>3. CASE raising # {}
  <2>1. \E i \in raising : \A j \in raising : i <= j
    BY <1>1, <1>3
  <2>2. first \in raising
    BY <2>1
  <2>3. FirstErrors(parts) = parts[first]
    BY <1>3 DEF FirstErrors
  <2>4. FirstErrors(parts) # {}
    BY <2>2, <2>3
  <2>5. \E i \in 1..5 : parts[i] # {}
    BY <1>1, <1>3
  <2> QED
    BY <1>1, <2>4, <2>5
<1> QED
  BY <1>2, <1>3

\* What Settings() refuses is what one part refuses, or the checks of production.
LEMMA ErrorsOfOnePart ==
  ASSUME NEW c
  PROVE  \/ Errors(c) \subseteq {"environment", "pool_size", "public_url", "max_body_size"}
         \/ Errors(c) = AuthCookieErrors(c)
         \/ FirstErrors(PartErrors(c)) = {} /\ Errors(c) = RefuseDevelopmentValues(c)
<1> DEFINE parts == PartErrors(c)
           raising == {i \in DOMAIN parts : parts[i] # {}}
           first == CHOOSE i \in raising : \A j \in raising : i <= j
<1>1. /\ DOMAIN parts = 1..5
      /\ parts[1] = Invalid(c, {"environment"}) /\ parts[2] = AuthCookieErrors(c)
      /\ parts[3] = Invalid(c, {"pool_size"}) /\ parts[4] = Invalid(c, {"public_url"})
      /\ parts[5] = Invalid(c, {"max_body_size"})
  BY DEF PartErrors
<1>2. CASE FirstErrors(parts) = {}
  BY <1>2 DEF Errors
<1>3. CASE FirstErrors(parts) # {}
  <2>1. raising # {}
    BY <1>3 DEF FirstErrors
  <2>2. \E i \in raising : \A j \in raising : i <= j
    BY <1>1, <2>1
  <2>3. first \in 1..5
    BY <1>1, <2>2
  <2>4. Errors(c) = parts[first]
    BY <1>3, <2>1 DEF Errors, FirstErrors
  <2>5. CASE first = 2
    BY <1>1, <2>4, <2>5
  <2>6. CASE first # 2
    <3>1. /\ Invalid(c, {"environment"}) \subseteq {"environment"}
          /\ Invalid(c, {"pool_size"}) \subseteq {"pool_size"}
          /\ Invalid(c, {"public_url"}) \subseteq {"public_url"}
          /\ Invalid(c, {"max_body_size"}) \subseteq {"max_body_size"}
      BY DEF Invalid
    <3>2. first \in {1, 3, 4, 5}
      BY <2>3, <2>6
    <3> HIDE DEF first
    <3> QED
      BY <1>1, <2>4, <3>1, <3>2
  <2> QED
    BY <2>5, <2>6
<1> QED
  BY <1>2, <1>3

\* A setting with an old name is only named where it is set.
LEMMA OldNamesAreSet ==
  ASSUME NEW c, NEW old \in DOMAIN Renamed, old \in Errors(c)
  PROVE  c[old] # "unset"
<1>1. old \in {"old_name", "old_secure", "old_samesite", "old_path"}
  BY DEF Renamed
<1>2. old \notin RefuseDevelopmentValues(c)
  BY <1>1 DEF RefuseDevelopmentValues, ProductionProblems
<1>3. old \notin FollowTheHostPrefix(c)
  BY <1>1 DEF FollowTheHostPrefix
<1>4. old \in Old(c)
  BY <1>1, <1>2, <1>3, ErrorsOfOnePart DEF AuthCookieErrors
<1> QED
  BY <1>4 DEF Old

----------------------------------------------------------------------------
(* The settings while the operator corrects them.                           *)

\* A configuration as the operator may leave it in .env.
Parsed(c) ==
    /\ DOMAIN c = DOMAIN Good
    /\ c.secure \in Values.secure
    /\ c.old_secure \in Values.old_secure
    /\ c.trusted_hosts \in Seq(Hosts)

DeploymentInv ==
    /\ Parsed(config)
    /\ error = {} \/ (error = Errors(config) /\ ~launched)
    /\ launched => Errors(config) = {}
    /\ ~launched => pc = "start"

\* The two ways in which one setting is a problem, and what they are called.
LEMMA OneSetting ==
  ASSUME NEW problem
  PROVE  /\ problem \in {"any_origin", "local_origin"} => SettingOf(problem) = "cors_origins"
         /\ problem \in {"any_host", "local_hosts"} => SettingOf(problem) = "trusted_hosts"
         /\ problem \notin {"any_origin", "local_origin", "any_host", "local_hosts"}
               => SettingOf(problem) = problem
BY DEF SettingOf, TwoWays

\* An old name is renamed only if the error is about it.
LEMMA NamedOldNames ==
  ASSUME NEW old \in Named \cap DOMAIN Renamed
  PROVE  old \in error
BY OneSetting DEF Named, Renamed

\* Correcting leaves the settings that no error is about as they are, ...
LEMMA CorrectKeeps ==
  ASSUME Correct, NEW s \in DOMAIN config, s \notin Named,
         \A old \in Named \cap DOMAIN Renamed : Renamed[old] # s
  PROVE  config'[s] = config[s]
BY DEF Correct

\* ... and gives those that the error names their good values.
LEMMA CorrectMakesGood ==
  ASSUME Correct, NEW s \in DOMAIN config, s \in Named, s # "trusted_hosts"
  PROVE  config'[s] = Good[s]
BY DEF Correct

\* What the operator corrects is again a configuration that Settings() can read.
LEMMA CorrectParsed ==
  ASSUME DeploymentInv, Correct
  PROVE  Parsed(config)'
<1> USE DEF DeploymentInv, Parsed
<1>1. DOMAIN config' = DOMAIN Good
  BY DEF Correct
<1>2. {"secure", "old_secure", "trusted_hosts"} \subseteq DOMAIN config
  BY DEF Good
<1>3. /\ Good["secure"] = "true" /\ Good["old_secure"] = "unset"
      /\ Values.secure = {"true", "false"} /\ Values.old_secure = {"unset", "false"}
  BY DEF Good, Values
<1>4. error = Errors(config)
  BY DEF Correct
<1>5. config'["old_secure"] \in Values.old_secure
  <2>1. \A old \in DOMAIN Renamed : Renamed[old] # "old_secure"
    BY DEF Renamed
  <2> QED
    BY <1>2, <1>3, <2>1, CorrectKeeps, CorrectMakesGood
<1>6. config'["secure"] \in Values.secure
  <2>1. CASE "secure" \in Named
    BY <1>2, <1>3, <2>1, CorrectMakesGood
  <2>2. CASE "secure" \notin Named /\ "old_secure" \in Named
    <3>1. /\ DOMAIN Renamed = {"old_name", "old_secure", "old_samesite", "old_path"}
          /\ Renamed["old_secure"] = "secure"
          /\ \A old \in DOMAIN Renamed \ {"old_secure"} : Renamed[old] # "secure"
      BY DEF Renamed
    <3>2. (CHOOSE old \in DOMAIN Renamed : Renamed[old] = "secure") = "old_secure"
      BY <3>1
    <3>3. config'["secure"] = config["old_secure"]
      BY <1>2, <2>2, <3>1, <3>2 DEF Correct
    <3>4. config["old_secure"] = "false"
      BY <1>3, <1>4, <2>2, <3>1, NamedOldNames, OldNamesAreSet
    <3> QED
      BY <1>3, <3>3, <3>4
  <2>3. CASE "secure" \notin Named /\ "old_secure" \notin Named
    <3>1. \A old \in Named \cap DOMAIN Renamed : Renamed[old] # "secure"
      BY <2>3 DEF Renamed
    <3> QED
      BY <1>2, <2>3, <3>1, CorrectKeeps
  <2> QED
    BY <2>1, <2>2, <2>3
<1>7. config'["trusted_hosts"] \in Seq(Hosts)
  <2>1. CASE "trusted_hosts" \in Named
    <3>1. PICK hosts \in CorrectedHosts(config.trusted_hosts) :
             config'["trusted_hosts"] = hosts
      BY <1>2, <2>1 DEF Correct
    <3>2. Good.trusted_hosts \in Seq(Hosts)
      BY DEF Good, Hosts
    <3> QED
      BY <3>1, <3>2, DeploymentAssumption DEF CorrectedHosts
  <2>2. CASE "trusted_hosts" \notin Named
    <3>1. \A old \in DOMAIN Renamed : Renamed[old] # "trusted_hosts"
      BY DEF Renamed
    <3> QED
      BY <1>2, <2>2, <3>1, CorrectKeeps
  <2> QED
    BY <2>1, <2>2
<1> QED
  BY <1>1, <1>5, <1>6, <1>7

\* No step of the operator or of the process breaks the invariant.
LEMMA DeploymentInvStep == DeploymentInv /\ [DeploymentNext]_deploymentVars => DeploymentInv'
<1> SUFFICES ASSUME DeploymentInv, [DeploymentNext]_deploymentVars PROVE DeploymentInv'
  OBVIOUS
<1>1. CASE Launch
  BY <1>1 DEF Launch, DeploymentInv, Parsed, vars
<1>2. CASE LaunchRefused
  BY <1>2 DEF LaunchRefused, DeploymentInv, Parsed, vars
<1>3. CASE Correct
  <2>1. /\ Parsed(config)' /\ error' = {} /\ launched' = launched /\ pc' = pc
        /\ error # {}
    BY <1>3, CorrectParsed DEF Correct, vars
  <2> QED
    BY <2>1 DEF DeploymentInv
<1>4. CASE Run(Next)
  BY <1>4 DEF Run, DeploymentInv, Parsed
<1>5. CASE UNCHANGED deploymentVars
  BY <1>5 DEF deploymentVars, vars, DeploymentInv, Parsed
<1> QED
  BY <1>1, <1>2, <1>3, <1>4, <1>5 DEF DeploymentNext, Deploy

\* The invariant holds in every state of a deployment.
LEMMA DeploymentInductive == DeploymentSpec => []DeploymentInv
<1>1. DeploymentInit => DeploymentInv
  BY DeploymentAssumption DEF DeploymentInit, Init, DeploymentInv, Parsed
<1> QED
  BY <1>1, DeploymentInvStep, PTL DEF DeploymentSpec

----------------------------------------------------------------------------
(* What holds in a process that starts.                                     *)

\* Whatever mistakes the operator began with and made on the way, the browser keeps
\* the refresh cookie of a process that starts.
THEOREM CookieSurvives == DeploymentSpec => []CookieIsKept
<1>1. DeploymentInv => CookieIsKept
  <2> SUFFICES ASSUME DeploymentInv, launched
               PROVE  /\ KeepsHostPrefix(config)
                      /\ IsDevelopment(config) \/ KeepsSameSite(config)
    BY DEF CookieIsKept
  <2>1. /\ FirstErrors(PartErrors(config)) = {}
        /\ RefuseDevelopmentValues(config) = {}
    BY DEF DeploymentInv, Errors
  <2>2. config.secure \in {"true", "false"}
    BY DEF DeploymentInv, Parsed, Values
  <2>3. FollowTheHostPrefix(config) = {}
    BY <2>1, PartsPass DEF AuthCookieErrors
  <2>4. KeepsHostPrefix(config)
    BY <2>2, <2>3 DEF FollowTheHostPrefix, KeepsHostPrefix
  <2>5. ASSUME ~IsDevelopment(config) PROVE config.secure = "true"
    BY <2>1, <2>2, <2>5 DEF RefuseDevelopmentValues, ProductionProblems
  <2> QED
    BY <2>4, <2>5 DEF KeepsSameSite
<1> QED
  BY <1>1, DeploymentInductive, PTL

\* The probe of the container is answered, whatever list of trusted hosts the checks
\* of production let through, unless its first host has a port and is not listed
\* without it: then it is refused.
THEOREM HealthcheckAnswered == DeploymentSpec => []HealthcheckAgrees
<1>1. DeploymentInv => HealthcheckAgrees
  <2> DEFINE hosts == config.trusted_hosts
  <2> SUFFICES ASSUME DeploymentInv, pc = "serving", ~IsDevelopment(config)
               PROVE  Trusted(hosts, HostHeader(hosts)) <=>
                         WithoutPort(Head(hosts)) \in ToSet(hosts)
    BY DEF HealthcheckAgrees
  <2>1. ProductionProblems(config) = {}
    BY DEF DeploymentInv, Errors, RefuseDevelopmentValues
  <2>2. "*" \notin ToSet(hosts) /\ ~(ToSet(hosts) \subseteq LocalHosts)
    BY <2>1 DEF ProductionProblems
  <2>3. hosts \in Seq(Hosts)
    BY DEF DeploymentInv, Parsed
  <2> HIDE DEF hosts
  <2>4. hosts # <<>>
    BY <2>2 DEF ToSet
  <2>5. Head(hosts) \in ToSet(hosts)
    BY <2>3, <2>4 DEF ToSet
  <2>6. CASE Head(hosts) = "*.api"
    BY <2>4, <2>5, <2>6 DEF HostHeader, Trusted, WithoutPort
  <2>7. CASE Head(hosts) # "*.api"
    <3>1. HostHeader(hosts) = Head(hosts)
      BY <2>2, <2>4, <2>5, <2>7 DEF HostHeader
    <3>2. WithoutPort(Head(hosts)) # "healthcheck.api"
      BY <2>3, <2>4 DEF WithoutPort, Hosts, LocalHosts
    <3> QED
      BY <2>2, <3>1, <3>2 DEF Trusted
  <2> QED
    BY <2>6, <2>7
<1> QED
  BY <1>1, DeploymentInductive, PTL

----------------------------------------------------------------------------
(* The checks of production name every problem at once, but for one.        *)

\* Once they have refused a start, no other part of the settings refuses one, and what
\* they refuse next, if anything, are hosts that are all local.
AllTold ==
    told # {} =>
        /\ FirstErrors(PartErrors(config)) = {}
        /\ error = {} /\ ~IsDevelopment(config) =>
              \/ ProductionProblems(config) = {}
              \/ /\ ProductionProblems(config) = {"local_hosts"}
                 /\ "any_host" \in told /\ "local_hosts" \notin told
        /\ error # {} => /\ "any_host" \in error => told = error
                         /\ error \subseteq told

\* The settings that are right and have nothing to do with the error stay right.
LEMMA PartsStayRight ==
  ASSUME DeploymentInv, FirstErrors(PartErrors(config)) = {}, Correct
  PROVE  /\ FirstErrors(PartErrors(config))' = {}
         /\ \A s \in DOMAIN Good \ Named : config'[s] = config[s]
         /\ error = ProductionProblems(config)
<1>1. error = ProductionProblems(config) /\ DOMAIN config = DOMAIN Good
  BY DEF DeploymentInv, Parsed, Correct, Errors, RefuseDevelopmentValues
<1>2. Named \subseteq {"debug", "echo", "secure", "public_url", "client_secret",
                      "password", "redirect_uris", "cors_origins", "trusted_hosts",
                      "forwarded_allow_ips"}
  BY <1>1, OneSetting DEF Named, ProductionProblems
<1>3. Named \cap DOMAIN Renamed = {}
  BY <1>2 DEF Renamed
<1>4. \A s \in DOMAIN Good : s \notin Named => config'[s] = config[s]
  BY <1>1, <1>3, CorrectKeeps
<1>5. FirstErrors(PartErrors(config'))  = {}
  <2>1. /\ {"environment", "pool_size", "max_body_size", "public_url", "cookie_name",
             "secure", "path"} \subseteq DOMAIN Good
        /\ DOMAIN Renamed \subseteq DOMAIN Good
        /\ Good["public_url"] = "https" /\ Good["secure"] = "true"
    BY DEF Good, Renamed
  <2>2. /\ \A s \in {"environment", "pool_size", "max_body_size", "cookie_name", "path"} :
               config'[s] = config[s]
        /\ \A s \in DOMAIN Renamed : config'[s] = config[s]
    BY <1>2, <1>3, <1>4, <2>1
  <2>3. /\ config'["public_url"] \in {config["public_url"], "https"}
        /\ config'["secure"] \in {config["secure"], "true"}
    BY <1>1, <1>4, <2>1, CorrectMakesGood
  <2>4. /\ Invalid(config, {"environment"}) = {} /\ AuthCookieErrors(config) = {}
        /\ Invalid(config, {"pool_size"}) = {} /\ Invalid(config, {"public_url"}) = {}
        /\ Invalid(config, {"max_body_size"}) = {}
    BY PartsPass
  <2>5. /\ Invalid(config', {"environment"}) = {} /\ Invalid(config', {"pool_size"}) = {}
        /\ Invalid(config', {"public_url"}) = {}
        /\ Invalid(config', {"max_body_size"}) = {}
    BY <2>2, <2>3, <2>4 DEF Invalid
  <2>6. AuthCookieErrors(config') = {}
    <3>1. Old(config) = {} /\ FollowTheHostPrefix(config) = {}
      BY <2>4 DEF AuthCookieErrors
    <3>2. Old(config') = {}
      BY <2>2, <3>1 DEF Old
    <3>3. FollowTheHostPrefix(config') = {}
      BY <2>2, <2>3, <3>1 DEF FollowTheHostPrefix, HasHostPrefix
    <3> QED
      BY <3>2, <3>3 DEF AuthCookieErrors
  <2> QED
    BY <2>5, <2>6, PartsPass
<1> QED
  BY <1>1, <1>4, <1>5

\* The hosts after a correction: only a list that had a "*" can be a problem again.
LEMMA HostsAfter ==
  ASSUME DeploymentInv, Correct, "trusted_hosts" \in Named,
         error = ProductionProblems(config)
  PROVE  /\ "*" \notin ToSet(config'.trusted_hosts)
         /\ ToSet(config'.trusted_hosts) \subseteq LocalHosts
               => "any_host" \in error /\ "local_hosts" \notin error
<1>1. "trusted_hosts" \in DOMAIN config /\ DOMAIN config = DOMAIN Good
  BY DEF DeploymentInv, Parsed, Good
<1>2. PICK hosts \in CorrectedHosts(config.trusted_hosts) : config'["trusted_hosts"] = hosts
  BY <1>1 DEF Correct
<1>3. "*" \notin LocalHosts /\ "api" \notin LocalHosts
  BY DEF LocalHosts
<1>4. CASE hosts = Good.trusted_hosts
  <2>1. ToSet(<<"api">>) = {"api"}
    BY DEF ToSet
  <2> QED
    BY <1>2, <1>3, <1>4, <2>1 DEF Good
<1>5. CASE ToSet(hosts) = AskedHosts(ToSet(config.trusted_hosts))
  <2>1. CASE "*" \in ToSet(config.trusted_hosts)
    BY <1>2, <1>3, <1>5, <2>1 DEF AskedHosts, ProductionProblems
  <2>2. CASE "*" \notin ToSet(config.trusted_hosts)
    BY <1>2, <1>3, <1>5, <2>2 DEF AskedHosts
  <2> QED
    BY <2>1, <2>2
<1> QED
  BY <1>2, <1>4, <1>5 DEF CorrectedHosts

\* What the checks of production name is corrected without a new mistake, but that
\* hosts without their "*" may all be local.
LEMMA CorrectionsOfProduction ==
  ASSUME DeploymentInv, FirstErrors(PartErrors(config)) = {}, Correct
  PROVE  \/ ProductionProblems(config)' = {}
         \/ /\ ProductionProblems(config)' = {"local_hosts"}
            /\ "any_host" \in error /\ "local_hosts" \notin error
<1> DEFINE Problems == {"debug", "echo", "secure", "public_url", "client_secret",
                        "password", "redirect_uris", "forwarded_allow_ips"}
<1>1. /\ \A s \in DOMAIN Good \ Named : config'[s] = config[s]
      /\ error = ProductionProblems(config) /\ DOMAIN config = DOMAIN Good
  BY PartsStayRight DEF DeploymentInv, Parsed
<1>2. {"debug", "echo", "secure", "public_url", "client_secret", "password",
       "redirect_uris", "cors_origins", "trusted_hosts", "forwarded_allow_ips",
       "scheme"} \subseteq DOMAIN Good
  BY DEF Good
<1>3. \A problem \in error : SettingOf(problem) \in Named
  BY DEF Named
<1>4. config'["scheme"] = config["scheme"]
  <2>1. "scheme" \notin Named
    BY <1>1, OneSetting DEF Named, ProductionProblems
  <2> QED
    BY <1>1, <1>2, <2>1
<1>5. \A s \in DOMAIN Good : s \in Named /\ s # "trusted_hosts" => config'[s] = Good[s]
  BY <1>1, CorrectMakesGood
<1>6. ASSUME NEW problem \in ProductionProblems(config'),
             problem \notin {"any_host", "local_hosts"}
      PROVE  FALSE
  <2>1. CASE SettingOf(problem) \in Named
    <3>1. CASE problem \in {"any_origin", "local_origin"}
      <4>1. config'["cors_origins"] = {"frontend"}
        BY <1>2, <1>5, <2>1, <3>1, OneSetting DEF Good
      <4> QED
        BY <1>6, <3>1, <4>1 DEF ProductionProblems, LocalHosts
    <3>2. CASE problem \notin {"any_origin", "local_origin"}
      <4>1. SettingOf(problem) = problem /\ problem \in Problems
        BY <1>6, <3>2, OneSetting DEF ProductionProblems
      <4>2. config'[problem] = Good[problem]
        BY <1>2, <1>5, <2>1, <4>1
      <4> QED
        <5>1. /\ Good["debug"] = "false" /\ Good["echo"] = "false" /\ Good["secure"] = "true"
              /\ Good["client_secret"] = "own" /\ Good["password"] = "own"
              /\ Good["redirect_uris"] = {"callback"} /\ Good["public_url"] = "https"
              /\ Good["forwarded_allow_ips"] = {"proxy"}
          BY DEF Good
        <5>2. CASE problem = "public_url"
          BY <1>6, <4>2, <5>1, <5>2 DEF ProductionProblems, PublicServerUrl
        <5>3. CASE problem \in {"redirect_uris", "forwarded_allow_ips"}
          BY <1>6, <4>2, <5>1, <5>3 DEF ProductionProblems
        <5>4. CASE problem \in {"debug", "echo", "secure", "client_secret", "password"}
          BY <1>6, <4>2, <5>1, <5>4 DEF ProductionProblems
        <5> QED
          BY <4>1, <5>2, <5>3, <5>4
    <3> QED
      BY <3>1, <3>2
  <2>2. CASE SettingOf(problem) \notin Named
    <3>1. CASE problem \in {"any_origin", "local_origin"}
      <4>1. config'["cors_origins"] = config["cors_origins"]
        BY <1>1, <1>2, <2>2, <3>1, OneSetting
      <4> QED
        BY <1>1, <1>3, <1>6, <2>2, <3>1, <4>1 DEF ProductionProblems
    <3>2. CASE problem \notin {"any_origin", "local_origin"}
      <4>1. SettingOf(problem) = problem /\ problem \in Problems
        BY <1>6, <3>2, OneSetting DEF ProductionProblems
      <4>2. config'[problem] = config[problem]
        BY <1>1, <1>2, <2>2, <4>1
      <4>3. problem \in ProductionProblems(config)
        BY <1>4, <1>6, <4>1, <4>2 DEF ProductionProblems, PublicServerUrl
      <4> QED
        BY <1>1, <1>3, <2>2, <4>3
    <3> QED
      BY <3>1, <3>2
  <2> QED
    BY <2>1, <2>2
<1>7. ASSUME NEW problem \in ProductionProblems(config') \cap {"any_host", "local_hosts"}
      PROVE  problem = "local_hosts" /\ "any_host" \in error /\ "local_hosts" \notin error
  <2>1. CASE "trusted_hosts" \in Named
    BY <1>1, <1>7, <2>1, HostsAfter DEF ProductionProblems
  <2>2. CASE "trusted_hosts" \notin Named
    <3>1. problem \in ProductionProblems(config)
      BY <1>1, <1>2, <1>7, <2>2 DEF ProductionProblems
    <3> QED
      BY <1>1, <1>3, <2>2, <3>1, OneSetting
  <2> QED
    BY <2>1, <2>2
<1>8. ProductionProblems(config)' = ProductionProblems(config')
  OBVIOUS
<1> QED
  BY <1>6, <1>7, <1>8

\* An operator who was told of the problems of production is told of one more at most.
LEMMA AllToldStep == DeploymentInv /\ AllTold /\ [DeploymentNext]_deploymentVars => AllTold'
<1> SUFFICES ASSUME DeploymentInv, AllTold, [DeploymentNext]_deploymentVars PROVE AllTold'
  OBVIOUS
<1>1. CASE LaunchRefused
  <2>1. /\ config' = config /\ error' = Errors(config) /\ error' # {} /\ error = {}
        /\ told' = IF FirstErrors(PartErrors(config)) = {} THEN told \cup error' ELSE told
    BY <1>1 DEF LaunchRefused
  <2>2. CASE FirstErrors(PartErrors(config)) # {}
    BY <2>1, <2>2 DEF AllTold
  <2>3. CASE FirstErrors(PartErrors(config)) = {}
    <3>1. error' = ProductionProblems(config) /\ ~IsDevelopment(config)
      BY <2>1, <2>3 DEF Errors, RefuseDevelopmentValues
    <3> QED
      BY <2>1, <2>3, <3>1 DEF AllTold
  <2> QED
    BY <2>2, <2>3
<1>2. CASE Correct
  <2>1. told' = told /\ error' = {} /\ error # {}
    BY <1>2 DEF Correct
  <2>2. SUFFICES ASSUME told # {}
                 PROVE  /\ FirstErrors(PartErrors(config))' = {}
                        /\ \/ ProductionProblems(config)' = {}
                           \/ /\ ProductionProblems(config)' = {"local_hosts"}
                              /\ "any_host" \in told /\ "local_hosts" \notin told
    BY <2>1 DEF AllTold
  <2>3. FirstErrors(PartErrors(config)) = {} /\ error \subseteq told
        /\ ("any_host" \in error => told = error)
    BY <2>1, <2>2 DEF AllTold
  <2> QED
    BY <1>2, <2>3, PartsStayRight, CorrectionsOfProduction
<1>3. CASE Launch \/ Run(Next) \/ UNCHANGED deploymentVars
  BY <1>3 DEF Launch, Run, deploymentVars, AllTold, IsDevelopment
<1> QED
  BY <1>1, <1>2, <1>3 DEF DeploymentNext, Deploy

\* An operator who corrects what the first error of production names is refused at most
\* once more, and only for local hosts beside the "*" that the error named.
THEOREM OneErrorOfProduction == DeploymentSpec => AllAtOnce
<1>1. DeploymentInit => AllTold
  BY DEF DeploymentInit, AllTold
<1>2. DeploymentInv /\ AllTold /\ [DeploymentNext]_deploymentVars
        => [told # {} /\ error = {} /\ error' # {} =>
               /\ error' = {"local_hosts"}
               /\ "any_host" \in told /\ "local_hosts" \notin told]_deploymentVars
  <2> SUFFICES ASSUME DeploymentInv, AllTold, DeploymentNext,
                      told # {}, error = {}, error' # {}
               PROVE  /\ error' = {"local_hosts"}
                      /\ "any_host" \in told /\ "local_hosts" \notin told
    OBVIOUS
  <2>1. LaunchRefused
    BY DEF DeploymentNext, Deploy, Launch, Correct, Run
  <2>2. FirstErrors(PartErrors(config)) = {}
    BY DEF AllTold
  <2>3. error' = ProductionProblems(config) /\ ~IsDevelopment(config)
    BY <2>1, <2>2 DEF LaunchRefused, Errors, RefuseDevelopmentValues
  <2> QED
    BY <2>3 DEF AllTold
<1> QED
  BY <1>1, <1>2, AllToldStep, DeploymentInductive, PTL DEF DeploymentSpec, AllAtOnce
=============================================================================
