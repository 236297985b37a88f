---------------------------- MODULE Provisioning ----------------------------
(***************************************************************************)
(* The host commands that prepare a box and take GIDEON off it again:      *)
(* `host provision` (the registered steps, each a check and an apply),     *)
(* `preflight` (the steps' checks and the install-time checks) and         *)
(* `uninstall`.                                                            *)
(*                                                                         *)
(* What a step converges is a set of facts about the box, listed in the    *)
(* order its apply establishes them (Recipe).  A file that a running       *)
(* daemon reads is a fact of its own; that the daemon still runs the text  *)
(* from before is recorded in `owed`, which no check reads.  What lies     *)
(* outside GIDEON's reach (a foreign disk, another operator's setting, a   *)
(* relay that refuses) is in `outside`, and only its operator removes it.  *)
(***************************************************************************)
EXTENDS Naturals, Sequences, FiniteSets

CONSTANTS
    NoGpu,        \* the no-GPU host mode is declared
    BuildBox,     \* the build-box mode is declared
    Conditions,   \* the outside conditions this box may start with
    Picked,       \* the steps an operator runs with --only
    Editable,     \* the facts someone may undo by hand
    Beside,       \* an unmanaged /data entry stands beside the managed block
    MaxTroubles   \* bound: failures, interruptions, edits and removals

ASSUME ProvisioningAssumption ==
    NoGpu \in BOOLEAN /\ BuildBox \in BOOLEAN /\ Beside \in BOOLEAN
        /\ MaxTroubles \in Nat

VARIABLES
    facts,     \* what holds on the box of all the recipes establish
    owed,      \* daemons still running what their files said before
    outside,   \* conditions only an operator removes
    site,      \* /etc/gideon/site.yaml is written
    work,      \* the command under way
    outcomes,  \* each step's outcome in the run under way
    stored,    \* users' data on the data volume: "none", "kept" or "lost"
    running,   \* the stack's containers are up
    troubles   \* failures and interruptions so far

provisionVars ==
    <<facts, owed, outside, site, work, outcomes, stored, running, troubles>>

-----------------------------------------------------------------------------
(* The registered steps. *)

STEPS == <<"platform", "wait-online", "egress-proxy", "host-tools",
           "gideon-command", "service-user", "csa-accounts", "disk-layout",
           "nvidia-driver", "nvidia-toolkit", "docker-engine", "firewall",
           "time-sync", "timezone", "unattended-upgrades", "secrets-dirs",
           "backup-keypair", "age-recipient", "age-identity", "kvm",
           "registry", "gh-runner", "archive-tools">>

StepNames == {STEPS[i] : i \in DOMAIN STEPS}
NeedsSite == {"egress-proxy", "firewall", "time-sync", "timezone"}
GpuHostOnly == {"nvidia-driver", "nvidia-toolkit"}
BuildBoxOnly == {"kvm", "registry", "gh-runner", "archive-tools"}

Requires(s) ==
    CASE s = "disk-layout" -> {"service-user"}
      [] s = "nvidia-toolkit" -> {"nvidia-driver"}
      [] s = "docker-engine" -> {"disk-layout"}
      [] s = "backup-keypair" -> {"secrets-dirs", "service-user"}
      [] s \in {"age-recipient", "age-identity"} -> {"host-tools", "secrets-dirs"}
      [] s = "registry" -> {"docker-engine", "disk-layout", "kvm"}
      [] s = "gh-runner" -> {"docker-engine", "disk-layout"}
      [] OTHER -> {}

DiskLayout == <<"pv", "vg", "lv", "xfs", "fstab", "mounted", "directories">>
NvidiaDriver == <<"legacy source gone", "driver package", "driver held">>
NvidiaToolkit == <<"toolkit", "persistenced", "cdi">>
DockerEngine ==
    <<"docker source", "docker packages", "daemon.json", "containerd config",
      "containerd active", "restart containerd", "journald drop-in",
      "restart journald", "docker active", "restart docker">>
FirewallRules == <<"ufw rules", "after.rules block", "ufw active", "chain">>
FirewallJump == <<"jump unit", "jump", "old jumps gone">>
Kvm == <<"kvm packages", "libvirtd active", "libvirt network", "vm image">>
Registry == <<"registry rule", "registry unit", "restart registry", "registry active">>
RunnerHost == <<"runner account", "runner group", "runner package", "wrappers", "sudoers">>
RunnerInstance == <<"runner release", "runner registered", "runner service">>

WaitOnline == <<"wait-online file", "reload networkd">>
EgressProxy == <<"apt proxy">>
HostTools == <<"host tools">>
ArchiveTools == <<"rclone">>
GideonCommand == <<"command">>
ServiceUser == <<"gideon user">>
CsaAccounts == <<"sshd policy", "reload sshd">>
TimeSync == <<"chrony", "chrony sources", "chrony active", "reload chrony">>
Timezone == <<"time zone">>
UnattendedUpgrades == <<"unattended package", "periodic keys", "needrestart file">>
SecretsDirs == <<"directories of /etc/gideon", "secret modes">>
BackupKeypair == <<"private key", "public key", "key owner">>
AgeRecipient == <<"age recipient">>
AgeIdentity == <<"age identity", "identity mode">>

\* What a step's apply establishes, in its order.  The platform step has none.
Recipe(s) ==
    CASE s = "platform" -> <<>>
      [] s = "wait-online" -> WaitOnline
      [] s = "egress-proxy" -> EgressProxy
      [] s = "host-tools" -> HostTools
      [] s = "gideon-command" -> GideonCommand
      [] s = "service-user" -> ServiceUser
      [] s = "csa-accounts" -> CsaAccounts
      [] s = "disk-layout" -> DiskLayout
      [] s = "nvidia-driver" -> NvidiaDriver
      [] s = "nvidia-toolkit" -> NvidiaToolkit
      [] s = "docker-engine" -> DockerEngine
      [] s = "firewall" -> FirewallRules \o FirewallJump
      [] s = "time-sync" -> TimeSync
      [] s = "timezone" -> Timezone
      [] s = "unattended-upgrades" -> UnattendedUpgrades
      [] s = "secrets-dirs" -> SecretsDirs
      [] s = "backup-keypair" -> BackupKeypair
      [] s = "age-recipient" -> AgeRecipient
      [] s = "age-identity" -> AgeIdentity
      [] s = "kvm" -> Kvm
      [] s = "registry" -> Registry
      [] s = "gh-runner" -> RunnerHost \o RunnerInstance
      [] s = "archive-tools" -> ArchiveTools

RecipeFacts == [s \in StepNames |-> {Recipe(s)[i] : i \in DOMAIN Recipe(s)}]
Facts(s) == RecipeFacts[s]

\* The reload or restart an apply does only after it wrote the file itself.
After(r) ==
    CASE r = "reload networkd" -> {"wait-online file"}
      [] r = "reload sshd" -> {"sshd policy"}
      [] r = "reload chrony" -> {"chrony sources"}
      [] r = "restart containerd" -> {"containerd config"}
      [] r = "restart journald" -> {"journald drop-in"}
      [] r = "restart docker" -> {"daemon.json", "containerd config"}
      [] r = "restart registry" -> {"registry unit"}

Reloads == {"reload networkd", "reload sshd", "reload chrony", "restart containerd",
            "restart journald", "restart docker", "restart registry"}

\* What a fact brings with it: Docker's packages start their daemons.
Brings(f) ==
    IF f = "docker packages" THEN {"containerd active", "docker active"} ELSE {}

-----------------------------------------------------------------------------
(* The steps' checks. *)

\* Conditions a step refuses: its check is unfixable and its apply raises.
DiskRefusals == {"unknown disks", "foreign signature"}
NvidiaSources == {"two NVIDIA sources"}
DriverRefusals == {"closed driver", "no module"}
DockerRefusals == {"old Docker", "two Docker sources"}
DaemonRefusals == {"daemon.json keys"}
MovedSettings == {"containerd root moved", "journald moved"}
StoreRefusal == {"store left behind"}
FirewallRefusals == {"ufw policy moved"}
PlatformRefusals == {"other platform"}
CsaRefusals == {"fewer than two CSAs", "login rule moved"}
TimezoneRefusals == {"time zone moved"}
PeriodicRefusals == {"periodic off"}

Refusals(s) ==
    CASE s = "platform" -> PlatformRefusals
      [] s = "csa-accounts" -> CsaRefusals
      [] s = "disk-layout" -> DiskRefusals
      [] s = "nvidia-driver" -> NvidiaSources \cup DriverRefusals
      [] s = "nvidia-toolkit" -> NvidiaSources
      [] s = "docker-engine" -> DockerRefusals \cup DaemonRefusals \cup MovedSettings
                                  \cup StoreRefusal
      [] s = "firewall" -> FirewallRefusals
      [] s = "timezone" -> TimezoneRefusals
      [] s = "unattended-upgrades" -> PeriodicRefusals
      [] OTHER -> {}

Drifted(s) == Facts(s) \ (facts \cup Reloads) # {}
ByFacts(s) == IF Drifted(s) THEN "drift" ELSE "converged"

DiskLayoutCheck ==
    IF "foreign mount" \in outside
      THEN IF ~site THEN "pending"
           ELSE IF "directories" \in facts THEN "converged" ELSE "drift"
      ELSE IF "stray entry" \in outside /\ "fstab" \in facts THEN "drift"
           ELSE ByFacts("disk-layout")

DockerEngineCheck == ByFacts("docker-engine")
FirewallCheck == ByFacts("firewall")

NvidiaDriverCheck ==
    IF ~({"legacy source gone", "driver package"} \subseteq facts) THEN "drift"
    ELSE IF "driver loaded" \notin facts THEN "reboot"
    ELSE IF "driver held" \notin facts THEN "drift" ELSE "converged"

NvidiaToolkitCheck ==
    IF "driver loaded" \notin facts THEN "pending" ELSE ByFacts("nvidia-toolkit")

\* Drift outranks a wait: the apply goes as far as the token lets it.
GhRunnerCheck ==
    LET waits == "runner registered" \notin facts /\ "token" \in outside
        open == Facts("gh-runner") \ facts
    IN  IF waits /\ open = {"runner registered", "runner service"}
          THEN "pending" ELSE ByFacts("gh-runner")

StepCheck(s) ==
    CASE s = "disk-layout" -> DiskLayoutCheck
      [] s = "nvidia-driver" -> NvidiaDriverCheck
      [] s = "nvidia-toolkit" -> NvidiaToolkitCheck
      [] s = "docker-engine" -> DockerEngineCheck
      [] s = "firewall" -> FirewallCheck
      [] s = "gh-runner" -> GhRunnerCheck
      [] OTHER -> ByFacts(s)

\* check_step: a missing site file is pending input before the step looks.
check_step(s) ==
    IF s \in NeedsSite /\ ~site THEN "pending"
    ELSE IF Refusals(s) \cap outside # {} THEN "unfixable"
    ELSE StepCheck(s)

_disposition_outcome(d) ==
    CASE d = "converged" -> "ok"
      [] d = "pending" -> "blocked"
      [] d = "reboot" -> "reboot-required"
      [] OTHER -> "failed"

SkippedByMode(s) == (NoGpu /\ s \in GpuHostOnly) \/ (~BuildBox /\ s \in BuildBoxOnly)

\* Mutant: only a prerequisite that this run applied is met.
UnmetUnlessApplied(p) == outcomes[p] # "applied" /\ ~SkippedByMode(p)

_prerequisite_unmet(p) ==
    outcomes[p] = "failed" \/ (outcomes[p] = "skipped" /\ ~SkippedByMode(p))

\* guard: a mutation that reaches every container on the box.
Disruptive == {"docker packages", "daemon.json", "containerd config",
               "journald drop-in", "ufw active", "driver package"}
Guarded(s) ==
    "co-tenant" \in outside /\ (Facts(s) \cap Disruptive) \ facts # {}

-----------------------------------------------------------------------------
(* provision *)

Idle0 == [op |-> "idle"]
Provisioning(phase) == work.op = "provision" /\ work.phase = phase
Step == STEPS[work.at]
Trouble == troubles < MaxTroubles /\ troubles' = troubles + 1

\* The next step of a whole run; --only runs end after their one step.
NextStep(halted) ==
    IF work.only \/ work.at = Len(STEPS) THEN Idle0
    ELSE [work EXCEPT !.at = @ + 1, !.phase = "check", !.pos = 1,
                      !.wrote = {}, !.halted = halted]

\* The outcomes are printed and forgotten with the run.
Outcome(o) ==
    outcomes' = IF work.only \/ work.at = Len(STEPS) THEN [s \in StepNames |-> "none"]
                ELSE [outcomes EXCEPT ![Step] = o]

ProvisionBegins ==
    /\ work.op = "idle"
    /\ work' = [op |-> "provision", only |-> FALSE, at |-> 1, phase |-> "check",
                pos |-> 1, wrote |-> {}, halted |-> FALSE]
    /\ UNCHANGED <<facts, owed, outside, site, outcomes, stored, running, troubles>>

\* _run_only: every prerequisite that the host mode does not skip is converged.
\* (A prerequisite's prerequisites are in the closure too.)
Closure(s) == Requires(s) \cup UNION {Requires(p) : p \in Requires(s)}

_run_only ==
    /\ work.op = "idle"
    /\ \E i \in DOMAIN STEPS :
          /\ STEPS[i] \in Picked /\ ~SkippedByMode(STEPS[i])
          /\ \A p \in Closure(STEPS[i]) : SkippedByMode(p) \/ check_step(p) = "converged"
          /\ check_step(STEPS[i]) = "drift"
          /\ work' = [op |-> "provision", only |-> TRUE, at |-> i, phase |-> "check",
                      pos |-> 1, wrote |-> {}, halted |-> FALSE]
    /\ UNCHANGED <<facts, owed, outside, site, outcomes, stored, running, troubles>>

Runs ==
    /\ ~SkippedByMode(Step)
    /\ ~work.halted
    /\ work.only \/ \A p \in Requires(Step) : ~_prerequisite_unmet(p)

StepSkipped ==
    /\ Provisioning("check")
    /\ ~Runs
    /\ Outcome("skipped")
    /\ work' = NextStep(work.halted)
    /\ UNCHANGED <<facts, owed, outside, site, stored, running, troubles>>

\* Only the platform's refusal halts the run.
StepJudged ==
    /\ Provisioning("check") /\ Runs
    /\ check_step(Step) # "drift"
    /\ Outcome(_disposition_outcome(check_step(Step)))
    /\ work' = NextStep(Step = "platform" /\ check_step(Step) = "unfixable")
    /\ UNCHANGED <<facts, owed, outside, site, stored, running, troubles>>

StepDrifts ==
    /\ Provisioning("check") /\ Runs
    /\ check_step(Step) = "drift"
    /\ IF Guarded(Step)
         THEN /\ Outcome("failed")
              /\ work' = NextStep(FALSE)
         ELSE /\ work' = [work EXCEPT !.phase = "apply"]
              /\ UNCHANGED outcomes
    /\ UNCHANGED <<facts, owed, outside, site, stored, running, troubles>>

\* Mutant: mkfs.xfs without asking whether the volume carries a filesystem.
LeftOutReformats(f) ==
    \/ f \in facts \ {"xfs"}
    \/ f \in Reloads /\ After(f) \cap work.wrote = {}
    \/ Step = "disk-layout" /\ "foreign mount" \in outside /\ f # "directories"
    \/ f \in {"runner registered", "runner service"} /\ "token" \in outside

\* What the apply leaves out: what holds already, the volume when /data is
\* mounted from elsewhere, and a runner's service while it has no token.
LeftOut(f) ==
    \/ f \in facts
    \/ f \in Reloads /\ After(f) \cap work.wrote = {}
    \/ Step = "disk-layout" /\ "foreign mount" \in outside /\ f # "directories"
    \/ f \in {"runner registered", "runner service"} /\ "token" \in outside

Due == {i \in work.pos .. Len(Recipe(Step)) : ~LeftOut(Recipe(Step)[i])}
Applying == Provisioning("apply") /\ Due # {}
Now == CHOOSE i \in Due : \A j \in Due : i <= j
Doing == Recipe(Step)[Now]

Reloading ==
    /\ Applying /\ Doing \in Reloads
    /\ owed' = owed \ {Doing}
    /\ work' = [work EXCEPT !.pos = Now + 1]
    /\ UNCHANGED <<facts, outside, site, outcomes, stored, running, troubles>>

\* _replace_fstab claims an unmanaged entry with the block it writes.
Writing ==
    /\ Applying /\ Doing \notin Reloads
    /\ facts' = facts \cup {Doing} \cup Brings(Doing)
    /\ owed' = owed \cup {r \in Reloads : Doing \in After(r)}
    /\ outside' = IF Doing = "fstab" THEN outside \ {"stray entry"} ELSE outside
    /\ stored' = IF Doing = "xfs" /\ stored = "kept" THEN "lost" ELSE stored
    /\ work' = [work EXCEPT !.pos = Now + 1, !.wrote = @ \cup {Doing}]
    /\ UNCHANGED <<site, outcomes, running, troubles>>

\* A child fails, a download does not match, apt would change other packages.
ApplyFails ==
    /\ Applying /\ Trouble
    /\ Outcome("failed")
    /\ work' = NextStep(FALSE)
    /\ UNCHANGED <<facts, owed, outside, site, stored, running>>

\* _run_step: the check judges the apply; only a converged step announces.
StepApplied ==
    /\ Provisioning("apply") /\ Due = {}
    /\ LET d == check_step(Step) IN Outcome(IF d = "converged" THEN "applied" ELSE _disposition_outcome(d))
    /\ work' = NextStep(FALSE)
    /\ UNCHANGED <<facts, owed, outside, site, stored, running, troubles>>

-----------------------------------------------------------------------------
(* preflight: the steps' checks, then the install-time checks. *)

Met(conditions) == conditions \cap outside # {}
Refuses(bad) == IF bad THEN "refuse" ELSE "pass"

\* A host that does not answer is probed a second time before it counts.
EgressCheck == Refuses(Met({"registry key", "proxy credentials", "host silent twice"}))
PortsCheck == Refuses(Met({"port held", "publisher unknown"}))
DockerNetworksCheck ==
    Refuses("docker active" \notin facts \/ Met({"network covers the office"}))
HostnameCheck == Refuses(Met({"hostname unknown"}))
NtpCheck == IF Met({"clock drifts"}) THEN "warn" ELSE "pass"
LdapCheck ==
    IF Met({"no bind password", "bind refused", "group missing", "member unseen",
            "member without UPN"}) THEN "refuse"
    ELSE IF Met({"empty users group"}) THEN "warn" ELSE "pass"
BackupSshCheck ==
    Refuses("private key" \notin facts \/ Met({"key not authorized", "target unwritable",
                                             "target lacks rsync"}))
SmtpCheck == Refuses(Met({"smtp user missing", "relay refuses"}))
DataVolumeCheck ==
    IF "mounted" \notin facts /\ ~Met({"foreign mount"}) THEN "refuse"
    ELSE IF NoGpu THEN "pass"
    ELSE IF Met({"data volume below floor"}) THEN "refuse"
    ELSE IF Met({"reserve short"}) THEN "warn" ELSE "pass"
HostMemoryCheck == IF Met({"memory low"}) THEN "warn" ELSE "pass"
GpuMemoryCheck ==
    Refuses(~NoGpu /\ ("driver loaded" \notin facts
                       \/ Met({"bad fraction", "card unrecorded", "GPU memory taken"})))
JurisdictionCheck ==
    IF Met({"unknown court", "home court not carried"}) THEN "refuse"
    ELSE IF Met({"tier not carried"}) THEN "warn" ELSE "pass"
HardwareProfileCheck ==
    IF Met({"unknown profile"}) THEN "refuse"
    ELSE IF NoGpu THEN "pass"
    ELSE IF "driver loaded" \notin facts \/ Met({"card unrecorded", "hardware below profile"})
           THEN "refuse"
    ELSE IF Met({"other profile"}) THEN "warn" ELSE "pass"
DriverTestedCheck ==
    IF NoGpu THEN "pass"
    ELSE IF "driver loaded" \notin facts THEN "refuse"
    ELSE IF Met({"untested driver"}) THEN "warn" ELSE "pass"
OsKernelCheck ==
    IF Met({"kernel unreadable"}) THEN "refuse"
    ELSE IF Met({"untested kernel"}) THEN "warn" ELSE "pass"

CHECKS == {EgressCheck, PortsCheck, DockerNetworksCheck, HostnameCheck, NtpCheck,
           LdapCheck, BackupSshCheck, SmtpCheck, DataVolumeCheck, HostMemoryCheck,
           GpuMemoryCheck, JurisdictionCheck, HardwareProfileCheck,
           DriverTestedCheck, OsKernelCheck}

_run_step_checks == \A s \in StepNames : SkippedByMode(s) \/ check_step(s) = "converged"
_run_preflight_checks == "refuse" \notin CHECKS

run_preflight == site /\ _run_step_checks /\ _run_preflight_checks

\* install: the stack starts on a box that preflight passes.
StackStarts ==
    /\ work.op = "idle" /\ ~running
    /\ run_preflight
    /\ running' = TRUE
    /\ UNCHANGED <<facts, owed, outside, site, work, outcomes, stored, troubles>>

UsersWrite ==
    /\ running /\ stored = "none"
    /\ stored' = "kept"
    /\ UNCHANGED <<facts, owed, outside, site, work, outcomes, running, troubles>>

-----------------------------------------------------------------------------
(* uninstall *)

UninstallStages ==
    <<"preconditions", "attached", "units", "projects", "firewall", "command",
      "files", "data", "configuration", "networks">>

Uninstalling == work.op = "uninstall"
Stage == UninstallStages[work.at]

UninstallBegins ==
    /\ work.op = "idle" /\ Trouble
    /\ \E purge \in BOOLEAN : work' = [op |-> "uninstall", at |-> 1, purge |-> purge]
    /\ UNCHANGED <<facts, owed, outside, site, outcomes, stored, running>>

_firewall == {"jump unit", "jump", "after.rules block", "chain"}
_command == {"command"}
_files == {"apt proxy", "chrony sources", "wait-online file", "needrestart file"}
_configuration == Facts("secrets-dirs") \cup Facts("backup-keypair")
                    \cup Facts("age-recipient") \cup Facts("age-identity")

\* What a stage takes off the box.
Removed ==
    CASE Stage = "firewall" -> _firewall
      [] Stage = "command" -> _command
      [] Stage = "files" /\ work.purge -> _files
      [] Stage = "data" /\ work.purge -> {"directories"}
      [] Stage = "configuration" /\ work.purge -> _configuration
      [] OTHER -> {}

UninstallAdvances ==
    work' = IF work.at = Len(UninstallStages) THEN Idle0 ELSE [work EXCEPT !.at = @ + 1]

\* _networks fails while another project's container holds a GIDEON network.
UninstallStage ==
    /\ Uninstalling
    /\ ~(Stage = "networks" /\ "co-tenant" \in outside)
    /\ facts' = facts \ Removed
    /\ owed' = IF Stage = "files" /\ work.purge
                 THEN owed \ {"reload networkd", "reload chrony"} ELSE owed
    /\ running' = IF Stage = "projects" THEN FALSE ELSE running
    /\ stored' = IF Stage = "data" /\ work.purge THEN "none" ELSE stored
    /\ site' = IF Stage = "configuration" /\ work.purge THEN FALSE ELSE site
    /\ UninstallAdvances
    /\ UNCHANGED <<outside, outcomes, troubles>>

UninstallFails ==
    /\ Uninstalling
    /\ \/ Stage = "networks" /\ "co-tenant" \in outside /\ UNCHANGED troubles
       \/ Trouble
    /\ work' = Idle0
    /\ UNCHANGED <<facts, owed, outside, site, outcomes, stored, running>>

-----------------------------------------------------------------------------
(* The operator and the box. *)

Interrupted ==
    /\ work.op # "idle" /\ Trouble
    /\ work' = Idle0
    /\ outcomes' = [s \in StepNames |-> "none"]
    /\ UNCHANGED <<facts, owed, outside, site, stored, running>>

SiteWritten ==
    /\ work.op = "idle" /\ ~site
    /\ site' = TRUE
    /\ UNCHANGED <<facts, owed, outside, work, outcomes, stored, running, troubles>>

\* Someone edits the box: a drop-in is gone, /data is unmounted.
BoxEdited ==
    /\ work.op = "idle" /\ Trouble
    /\ \E f \in Editable \cap facts : facts' = facts \ {f}
    /\ UNCHANGED <<owed, outside, site, work, outcomes, stored, running>>

\* The operator follows a row's fix.  A mount of /data from elsewhere is no
\* fault: the step accepts it, and it stays.
OutsideRepaired ==
    /\ work.op = "idle"
    /\ \E c \in outside \ {"stray entry", "foreign mount"} : outside' = outside \ {c}
    /\ UNCHANGED <<facts, owed, site, work, outcomes, stored, running, troubles>>

\* A reboot loads the driver and every daemon reads its files again.
Reboot ==
    /\ work.op = "idle"
    /\ facts' = IF "driver package" \in facts THEN facts \cup {"driver loaded"} ELSE facts
    /\ owed' = {}
    /\ <<facts', owed'>> # <<facts, owed>>
    /\ UNCHANGED <<outside, site, work, outcomes, stored, running, troubles>>

-----------------------------------------------------------------------------
ProvisionInit ==
    /\ facts = {"legacy source gone", "old jumps gone"} \cup
                 (IF Beside THEN {"gideon user"} \cup Facts("disk-layout") ELSE {})
    /\ owed = {}
    /\ outside \in {{}} \cup {{c} : c \in Conditions}
    /\ Beside => outside = {"stray entry"}
    /\ site = FALSE
    /\ work = Idle0
    /\ outcomes = [s \in StepNames |-> "none"]
    /\ stored = "none"
    /\ running = FALSE
    /\ troubles = 0

ProvisionSteps ==
    \/ StepSkipped \/ StepJudged \/ StepDrifts
    \/ Reloading \/ Writing \/ StepApplied

ProvisionNext ==
    \/ ProvisionBegins \/ _run_only \/ ProvisionSteps \/ ApplyFails
    \/ StackStarts \/ UsersWrite
    \/ UninstallBegins \/ UninstallStage \/ UninstallFails
    \/ Interrupted \/ BoxEdited \/ SiteWritten \/ OutsideRepaired \/ Reboot

\* The commands are synchronous loops.  The operator repairs what a row names,
\* writes the site file, reboots when a row asks and runs provision again.
ProvisionFairness ==
    /\ WF_provisionVars(ProvisionSteps) /\ WF_provisionVars(UninstallStage)
    /\ WF_provisionVars(UninstallFails)
    /\ SF_provisionVars(ProvisionBegins) /\ SF_provisionVars(SiteWritten)
    /\ SF_provisionVars(OutsideRepaired) /\ SF_provisionVars(Reboot)

ProvisionSpec ==
    ProvisionInit /\ [][ProvisionNext]_provisionVars /\ ProvisionFairness

-----------------------------------------------------------------------------
(* Properties *)

\* Users' data outlives every run: mkfs.xfs never meets a volume that carries
\* a filesystem, whatever runs were interrupted before, and only a purge's
\* data stage takes the data away.
DataSurvives ==
    [][stored = "kept" =>
         \/ stored' = "kept"
         \/ stored' = "none" /\ Uninstalling /\ Stage = "data" /\ work.purge]_provisionVars

\* The stack never runs without the firewall that keeps its published ports
\* to the office: uninstall stops the projects before it takes the chain down,
\* and a stopped box starts again only past a preflight that found the chain.
ShieldedStack == running => (Facts("firewall") \ Reloads) \subseteq facts

\* What provision and uninstall must never do to a box in use: format or drop its data, or
\* leave its ports open.
BoxKept == DataSurvives /\ []ShieldedStack

\* Provision settles: with the site file written, the outside conditions
\* repaired and the reboots done, re-running it ends with every step that the
\* host mode runs converged, whatever runs failed or stopped half way.
ProvisionSettles ==
    <>[](\A s \in StepNames : SkippedByMode(s) \/ check_step(s) = "converged")
=============================================================================
