------------------------- MODULE BuildkitContainer --------------------------
(***************************************************************************)
(* NewClient: several tkn-local processes look for the buildkitd container, *)
(* and each creates, replaces or starts it as it needs to, with one command *)
(* of the container engine after the other.  docker.go and podman.go do the *)
(* same; there is one container of the name per engine.                    *)
(***************************************************************************)
EXTENDS Naturals

CONSTANTS
  Clients,           \* the tkn-local processes
  Populations,       \* the functions client -> what it is told, to check
  Versions,          \* the versions of buildkit
  MaxAttempts,       \* how often the daemon is polled
  MaxFaults          \* bound: commands, containers and clients that fail

Engines == {"docker-container", "podman-container"}

Host == [scheme  : Engines \cup {"unix", "ssh", "other", ""},
         context : BOOLEAN]     \* the host ends in ?context=<context>

\* The host, by parameter and by environment, and the buildkit version a client
\* was built with.
Setting == [host : Host, TKN_LOCAL_HOST : Host, BUILDKIT_HOST : Host, version : Versions]

Nobody == "nobody"

ASSUME ClientsAssumption == Nobody \notin Clients
ASSUME PopulationsAssumption == Populations \subseteq [Clients -> Setting]
ASSUME AttemptsAssumption == MaxAttempts \in Nat \ {0}
ASSUME MaxFaultsAssumption == MaxFaults \in Nat

VARIABLES
  told,              \* client -> where it is told to connect, it never changes
  pc,                \* client -> what it does next, or how NewClient returned
  info,              \* client -> what inspect told it
  attempts,          \* client -> the polls that got no answer
  container,         \* engine -> the container of the name
  faults,            \* the faults there have been
  alone              \* the client nobody and no fault has disturbed so far

containerVars == <<told, pc, info, attempts, container, faults, alone>>

Stages == {"begin", "check", "inspect", "remove", "pull", "create", "launch",
           "start", "wait", "ok", "error"}

Container == [state   : {"absent", "created", "running"},
              version : Versions,
              creator : Clients \cup {Nobody}]

\* The parameter of NewClient, else the environment, else the default.
HostOf(c) ==
  LET s == told[c]
  IN  IF s.host.scheme # "" THEN s.host
      ELSE IF s.TKN_LOCAL_HOST.scheme # "" THEN s.TKN_LOCAL_HOST
      ELSE IF s.BUILDKIT_HOST.scheme # "" THEN s.BUILDKIT_HOST
      ELSE [scheme |-> "docker-container", context |-> FALSE]

Engine(c) == HostOf(c).scheme

\* The name the commands are given is all that follows the scheme: with a
\* context in it no container has it, and none can be given it.
Nameable(c) == ~HostOf(c).context

Users(e) == {c \in Clients : Engine(c) = e /\ Nameable(c)}

Exists(c) == Nameable(c) /\ container[Engine(c)].state # "absent"

Running(c) == Nameable(c) /\ container[Engine(c)].state = "running"

Ended(c) == pc[c] \in {"ok", "error"}

Active(c) == pc[c] # "begin" /\ ~Ended(c)

\* Mutant of ImageTag: the version has not been filled in.
ImageTag_Empty(c) == ""

\* The tag of the image is the version among the dependencies of the program.
ImageTag(c) == told[c].version

\* The containers as clients find them: one that is absent, or of an engine that
\* no client uses, may be taken to be any.
Found(e) ==
  LET any == [state |-> "absent", version |-> CHOOSE v \in Versions : TRUE, creator |-> Nobody]
  IN  IF Users(e) = {} THEN {any}
      ELSE {any} \cup [state : {"created", "running"}, version : Versions, creator : {Nobody}]

ContainerInit ==
  /\ told \in Populations
  /\ pc = [c \in Clients |-> "begin"]
  /\ info = [c \in Clients |-> [found |-> FALSE, active |-> FALSE]]
  /\ attempts = [c \in Clients |-> 0]
  /\ container \in [Engines -> Container]
  /\ \A e \in Engines : container[e] \in Found(e)
  /\ faults = 0 /\ alone = {}

-----------------------------------------------------------------------------
(* One client.                                                             *)

Goto(c, stage) == pc' = [pc EXCEPT ![c] = stage]

SetState(c, s) == container' = [container EXCEPT ![Engine(c)].state = s]

\* A daemon behind a socket is not looked after.
Begin(c) ==
  /\ pc[c] = "begin"
  /\ Goto(c, IF Engine(c) \in Engines THEN "check"
             ELSE IF Engine(c) \in {"unix", "ssh"} THEN "ok" ELSE "error")
  /\ alone' = {d \in {c} : \A other \in Clients \ {c} : ~Active(other)}
  /\ UNCHANGED <<told, info, attempts, container, faults>>

\* docker info
CheckEngine(c) ==
  /\ pc[c] = "check"
  /\ Goto(c, "inspect")
  /\ UNCHANGED <<told, info, attempts, container, faults, alone>>

\* Mutants of AfterInspect: a container that is not running is not started; the
\* versions are not compared.
AfterInspect_Waits(c) ==
  IF Exists(c) /\ container[Engine(c)].version = ImageTag(c) THEN "wait" ELSE "remove"
AfterInspect_AnyVersion(c) ==
  IF ~Exists(c) THEN "remove" ELSE IF Running(c) THEN "wait" ELSE "start"

\* A container that is missing or of another version is replaced.
AfterInspect(c) ==
  IF ~Exists(c) \/ container[Engine(c)].version # ImageTag(c) THEN "remove"
  ELSE IF Running(c) THEN "wait" ELSE "start"

Inspect(c) ==
  /\ pc[c] = "inspect"
  /\ info' = [info EXCEPT ![c] = [found |-> Exists(c), active |-> Running(c)]]
  /\ Goto(c, AfterInspect(c))
  /\ UNCHANGED <<told, attempts, container, faults, alone>>

\* Mutant of AfterFailedRemove: the error ends NewClient in every case.
AfterFailedRemove_Returns(c) == "error"

\* The error of rm is returned when a container had been found, and only
\* printed when none had.
AfterFailedRemove(c) == IF info[c].found THEN "error" ELSE "pull"

\* rm -fv removes whatever has the name by now; where there is nothing, it
\* reports an error or not, depending on the engine.
Remove(c) ==
  /\ pc[c] = "remove"
  /\ IF Exists(c)
     THEN SetState(c, "absent") /\ Goto(c, "pull")
     ELSE /\ UNCHANGED container
          /\ \E next \in {"pull", AfterFailedRemove(c)} : Goto(c, next)
  /\ UNCHANGED <<told, info, attempts, faults, alone>>

Pull(c) ==
  /\ pc[c] = "pull"
  /\ Goto(c, "create")
  /\ UNCHANGED <<told, info, attempts, container, faults, alone>>

\* run creates the container, which fails when there is one of the name.
Create(c) ==
  /\ pc[c] = "create"
  /\ IF Nameable(c) /\ ~Exists(c)
     THEN /\ container' = [container EXCEPT ![Engine(c)] =
                [state |-> "created", version |-> ImageTag(c), creator |-> c]]
          /\ Goto(c, "launch")
     ELSE Goto(c, "error") /\ UNCHANGED container
  /\ UNCHANGED <<told, info, attempts, faults, alone>>

\* What inspect said of the container that was replaced decides on a start.
AfterLaunch(c) == IF info[c].found /\ ~info[c].active THEN "start" ELSE "wait"

\* run then starts the container it created, if that is still there.
Launch(c) ==
  /\ pc[c] = "launch"
  /\ IF Exists(c) /\ container[Engine(c)].creator = c
     THEN SetState(c, "running") /\ Goto(c, AfterLaunch(c))
     ELSE Goto(c, "error") /\ UNCHANGED container
  /\ UNCHANGED <<told, info, attempts, faults, alone>>

StartContainer(c) ==
  /\ pc[c] = "start"
  /\ IF Exists(c)
     THEN SetState(c, "running") /\ Goto(c, "wait")
     ELSE Goto(c, "error") /\ UNCHANGED container
  /\ UNCHANGED <<told, info, attempts, faults, alone>>

\* waitBuildkit: any daemon that answers will do.
Answers(c) ==
  /\ pc[c] = "wait" /\ Running(c)
  /\ Goto(c, "ok")
  /\ UNCHANGED <<told, info, attempts, container, faults, alone>>

AfterAttempt(c) == IF attempts[c] + 1 < MaxAttempts THEN "wait" ELSE "error"

\* The daemon is not there, or not ready yet.
NoAnswer(c) ==
  /\ pc[c] = "wait"
  /\ attempts' = [attempts EXCEPT ![c] = IF @ < MaxAttempts THEN @ + 1 ELSE @]
  /\ Goto(c, AfterAttempt(c))
  /\ UNCHANGED <<told, info, container, faults, alone>>

Step(c) ==
  \/ Begin(c) \/ CheckEngine(c) \/ Inspect(c) \/ Remove(c) \/ Pull(c) \/ Create(c)
  \/ Launch(c) \/ StartContainer(c) \/ Answers(c) \/ NoAnswer(c)

-----------------------------------------------------------------------------
(* Faults.                                                                 *)

\* One fault more; it disturbs the clients in cs.
Fault(cs) ==
  /\ faults < MaxFaults
  /\ faults' = faults + 1
  /\ alone' = alone \ cs

\* A command fails without effect and its error is returned, or the client is
\* interrupted; what it has done to the container stays.
Fails(c) ==
  /\ Active(c) /\ Fault({c})
  /\ Goto(c, "error")
  /\ UNCHANGED <<told, info, attempts, container>>

\* inspect fails, or its output is not understood, though there is a container.
InspectFails(c) ==
  /\ pc[c] = "inspect" /\ Fault({c})
  /\ info' = [info EXCEPT ![c] = [found |-> FALSE, active |-> FALSE]]
  /\ Goto(c, "remove")
  /\ UNCHANGED <<told, attempts, container>>

\* rm fails where its error is not returned.
RemoveFails(c) ==
  /\ pc[c] = "remove" /\ Fault({c})
  /\ Goto(c, AfterFailedRemove(c))
  /\ UNCHANGED <<told, info, attempts, container>>

\* Somebody stops the container.
Stop(e) ==
  /\ container[e].state = "running" /\ Fault(Clients)
  /\ container' = [container EXCEPT ![e].state = "created"]
  /\ UNCHANGED <<told, pc, info, attempts>>

ContainerNext ==
  \/ \E c \in Clients : Step(c) \/ Fails(c) \/ InspectFails(c) \/ RemoveFails(c)
  \/ \E e \in Engines : Stop(e)

ContainerSpec == ContainerInit /\ [][ContainerNext]_containerVars

-----------------------------------------------------------------------------
(* Properties.                                                             *)

\* TYPE INVARIANT.
ContainerTypeOK ==
  /\ told \in Populations
  /\ pc \in [Clients -> Stages]
  /\ info \in [Clients -> [found : BOOLEAN, active : BOOLEAN]]
  /\ attempts \in [Clients -> 0..MaxAttempts]
  /\ container \in [Engines -> Container]
  /\ faults \in 0..MaxFaults
  /\ alone \subseteq Clients

\* IT IS THERE IN THE END.  However clients inspect, remove, create and start
\* the one container between each other's commands, and also when some of them
\* end in error: once all have returned it runs, in a version one of them wants.
RunsInTheEnd ==
  \A e \in Engines :
    (faults = 0 /\ Users(e) # {} /\ \A c \in Users(e) : Ended(c)) =>
      /\ container[e].state = "running"
      /\ container[e].version \in {told[c].version : c \in Users(e)}

\* THE WANTED VERSION ANSWERS.  NewClient returns a client of a daemon of the
\* version it was built with (docker.go: validate version), although that was
\* compared before the container was removed, created or started; unless a client
\* of another version has begun, which may put its own daemon there in between.
WantedVersionAnswers ==
  [][\A c \in Clients :
       /\ pc[c] = "wait" /\ pc'[c] = "ok"
       /\ \A d \in Users(Engine(c)) : pc[d] = "begin" \/ told[d].version = told[c].version
       => container[Engine(c)].version = told[c].version]_containerVars

\* A CLIENT ALONE IS SERVED.  Whatever state clients that failed, crashed or
\* raced have left the container in, a client that is alone and meets no fault
\* ends up waiting for a running daemon of its version; it returns an error only
\* when that does not answer, or for a host that cannot be used.
AloneIsServed ==
  \A c \in alone :
    /\ (Engine(c) \in Engines /\ pc[c] \in {"wait", "ok"}) =>
         Running(c) /\ container[Engine(c)].version = told[c].version
    /\ pc[c] = "error" =>
         attempts[c] = MaxAttempts \/ ~Nameable(c) \/ Engine(c) \notin Engines \cup {"unix", "ssh"}

=============================================================================
