-------------------------- MODULE ObserverTemplate --------------------------
(***************************************************************************)
(* src/observer/run-observer-template.sh: the installer that selects an    *)
(* OpenShift template for the chosen FLAVOUR, determines the OCP minor     *)
(* release, refuses an oc client too far from it, locates the template,   *)
(* decides the registry volume access mode, collects the template          *)
(* parameters from the shell variables and runs oc process | oc apply.     *)
(*                                                                         *)
(* The script runs sequentially (set -euo pipefail: any failing command    *)
(* ends it), so the model is one process with a program counter.  The     *)
(* user's edits of the configuration section (lines 7-66) and what the    *)
(* cluster answers (oc version, the default storage class, whether the    *)
(* template file is checked out) are chosen in Init.  Data is abstracted: *)
(* a release is a name with its minor, the only part the script         *)
(* compares (lines 172-175); a repository is its URL scheme; a storage    *)
(* class is "cephfs" (listed in rwxStorageClasses) or "other"; a value    *)
(* that is passed through unchanged is "lit"; a namespace is its name.    *)
(***************************************************************************)
EXTENDS Integers

CONSTANTS
    MinorOf,  \* OCP release ("4.6") -> its minor, ${release#*.} (line 175)
    None      \* no answer from oc version

(* The releases the server, the client or the user may name.               *)
Releases == DOMAIN MinorOf

(* An unset shell variable: its value is the empty string.             *)
Unset == ""

ASSUME TemplateAssumption ==
    /\ MinorOf \in [Releases -> Nat]
    /\ None \notin Releases
    /\ None \notin Nat          \* without a client version bc yields no number
    /\ Unset \notin Releases
    /\ "macro" \notin Releases   \* a release is never %%OCP_MINOR_RELEASE%%

Flavours == {"ubi-build", "ubi-prebuilt", "custom-build"}

(* Lines 74-103, one representative per way the loop of lines 245-265      *)
(* treats a variable: passed through, defaulted, rewritten to a URL, or    *)
(* macro-expanded.                                                         *)
CommonEnvVars == {"SDI_NAMESPACE", "NAMESPACE", "SLCB_NAMESPACE",
                  "OCP_MINOR_RELEASE"}
BuildEnvVars == {"SDI_OBSERVER_REPOSITORY", "SDI_OBSERVER_GIT_REVISION"}
RegistryEnvVars == {"SDI_REGISTRY_STORAGE_CLASS_NAME",
                    "SDI_REGISTRY_VOLUME_ACCESS_MODE"}
ImagePullSpecVars == {"IMAGE_PULL_SPEC", "SOURCE_IMAGE_PULL_SPEC"}
VarNames == CommonEnvVars \cup BuildEnvVars \cup RegistryEnvVars
              \cup ImagePullSpecVars \cup {"REDHAT_REGISTRY_SECRET_NAME"}

(* rwxStorageClasses (lines 105-107).                                      *)
RwxStorageClasses == {"cephfs"}

(* The configuration section as the user may leave it: "" is unset.       *)
(* The namespaces and SDI_OBSERVER_GIT_REVISION are set by the shipped      *)
(* script (lines 8-11), NAMESPACE possibly edited to SDI_NAMESPACE,         *)
(* which the comment of line 9 forbids but nothing checks; "macro" is a    *)
(* value holding %%OCP_MINOR_RELEASE%%.                                    *)
UserConfigs ==
    [SDI_NAMESPACE : {"sdi"},
     NAMESPACE : {"sdi-observer", "sdi"},
     SLCB_NAMESPACE : {"sap-slcbridge"},
     OCP_MINOR_RELEASE : {Unset} \cup Releases,
     SDI_OBSERVER_REPOSITORY : {Unset, "https", "http", "path"},
     SDI_OBSERVER_GIT_REVISION : {"lit"},
     SDI_REGISTRY_STORAGE_CLASS_NAME : {Unset, "cephfs", "other"},
     SDI_REGISTRY_VOLUME_ACCESS_MODE : {Unset, "ReadWriteOnce"},
     IMAGE_PULL_SPEC : {Unset, "lit", "macro"},
     SOURCE_IMAGE_PULL_SPEC : {"lit"},
     REDHAT_REGISTRY_SECRET_NAME : {Unset}]

Pcs == {"flavour", "server", "mismatch", "source", "access", "env",
        "namespaces", "apply", "done", "exit"}

VARIABLES
    pc,              \* next block of the script to run
    user,            \* the configuration the user ran the script with
    FLAVOUR,         \* line 28, possibly edited
    ocServer,        \* server minor printed by oc version (None: not logged in)
    ocClient,        \* client minor printed by oc version
    defaultSc,       \* the cluster's default storage class
    localTemplate,   \* $root/observer/<template>.json exists
    sh,              \* the shell variables the script reads and assigns
    envVars,         \* envVars (line 113), as a set
    template,        \* template (lines 124, 128, 138)
    warned,          \* the minor-mismatch warning of lines 181-185 was printed
    sourceLocation,  \* sourceLocation (lines 198-204)
    fileArg,         \* the -f argument of lines 206-218
    args,            \* the NAME=value parameters of line 263, as a function
    nsExists,        \* the namespaces of the three that exist in the cluster
    nsRefused        \* those whose oc create namespace (line 272) failed

tvars == <<pc, user, FLAVOUR, ocServer, ocClient, defaultSc, localTemplate,
           sh, envVars, template, warned, sourceLocation, fileArg, args,
           nsExists, nsRefused>>

TInit ==
    /\ pc = "flavour"
    /\ user \in UserConfigs
    /\ sh = user
    /\ FLAVOUR \in Flavours \cup {"other"}
    /\ ocServer \in Releases \cup {None}
    /\ ocClient \in Releases \cup {None}
    /\ defaultSc \in {"cephfs", "other"}
    /\ localTemplate \in BOOLEAN
    /\ envVars = CommonEnvVars
    /\ template = Unset
    /\ warned = FALSE
    /\ sourceLocation = Unset
    /\ fileArg = [loc |-> Unset, pinned |-> FALSE]
    /\ args = <<>>
    /\ nsExists = {}
    /\ nsRefused = {}

Exit == pc' = "exit"

-----------------------------------------------------------------------------
(* Lines 117-145: the flavour selects the template and adds its variables; *)
(* an unknown flavour ends the script.                                     *)
FlavourVars ==
    [f \in Flavours |->
        CASE f = "ubi-build" ->
                {"REDHAT_REGISTRY_SECRET_NAME"} \cup BuildEnvVars
                    \cup RegistryEnvVars
          [] f = "ubi-prebuilt" -> {"IMAGE_PULL_SPEC"}
          [] f = "custom-build" ->
                {"SOURCE_IMAGE_PULL_SPEC"} \cup BuildEnvVars \cup RegistryEnvVars]

(* Mutant: the catch-all case of line 140 does not exit.                  *)
SelectFlavourNoExit ==
    /\ pc = "flavour"
    /\ envVars' = IF FLAVOUR \in Flavours
                  THEN envVars \cup FlavourVars[FLAVOUR] ELSE envVars
    /\ template' = FLAVOUR
    /\ pc' = "server"
    /\ UNCHANGED <<nsExists, nsRefused, user, FLAVOUR, ocServer, ocClient,
                   defaultSc, localTemplate,
                   sh, warned, sourceLocation, fileArg, args>>

SelectFlavour ==
    /\ pc = "flavour"
    /\ IF FLAVOUR \in Flavours
       THEN /\ envVars' = envVars \cup FlavourVars[FLAVOUR]
            /\ template' = FLAVOUR
            /\ pc' = "server"
       ELSE /\ Exit
            /\ UNCHANGED <<envVars, template>>
    /\ UNCHANGED <<nsExists, nsRefused, user, FLAVOUR, ocServer, ocClient,
                   defaultSc, localTemplate,
                   sh, warned, sourceLocation, fileArg, args>>

(* Lines 147-164: unless the user set OCP_MINOR_RELEASE, take it from the  *)
(* server version oc reports; no server version ends the script.           *)
DetectRelease ==
    /\ pc = "server"
    /\ IF sh.OCP_MINOR_RELEASE # Unset
       THEN pc' = "mismatch" /\ UNCHANGED sh
       ELSE IF ocServer # None
       THEN /\ sh' = [sh EXCEPT !.OCP_MINOR_RELEASE = ocServer]
            /\ pc' = "mismatch"
       ELSE Exit /\ UNCHANGED sh
    /\ UNCHANGED <<nsExists, nsRefused, user, FLAVOUR, ocServer, ocClient,
                   defaultSc, localTemplate,
                   envVars, template, warned, sourceLocation, fileArg, args>>

(* Lines 166-196: minorMismatch is |release minor - client minor|, computed *)
(* by bc; with no client version bc fails and the case falls through to    *)
(* the error.  0 or 1 passes, 2 warns, anything else ends the script.      *)
AbsDiff(a, b) == IF a >= b THEN a - b ELSE b - a

MinorMismatch == IF ocClient = None THEN None
                 ELSE AbsDiff(MinorOf[sh.OCP_MINOR_RELEASE], MinorOf[ocClient])

(* Mutant: the error case starts one too late.                             *)
CheckMismatchLoose ==
    /\ pc = "mismatch"
    /\ CASE MinorMismatch \in {0, 1} -> pc' = "source" /\ UNCHANGED warned
         [] MinorMismatch \in {2, 3} -> pc' = "source" /\ warned' = TRUE
         [] OTHER -> Exit /\ UNCHANGED warned
    /\ UNCHANGED <<nsExists, nsRefused, user, FLAVOUR, ocServer, ocClient,
                   defaultSc, localTemplate,
                   sh, envVars, template, sourceLocation, fileArg, args>>

CheckMismatch ==
    /\ pc = "mismatch"
    /\ CASE MinorMismatch \in {0, 1} -> pc' = "source" /\ UNCHANGED warned
         [] MinorMismatch = 2 -> pc' = "source" /\ warned' = TRUE
         [] OTHER -> Exit /\ UNCHANGED warned
    /\ UNCHANGED <<nsExists, nsRefused, user, FLAVOUR, ocServer, ocClient,
                   defaultSc, localTemplate,
                   sh, envVars, template, sourceLocation, fileArg, args>>

(* Lines 198-218: the template comes from SDI_OBSERVER_REPOSITORY if set,  *)
(* else from the local checkout if the file is there, else from gitRepo    *)
(* (an https URL).  Only an https location gets the git revision in its    *)
(* path.                                                                   *)
LocateTemplate ==
    /\ pc = "source"
    /\ LET loc == IF sh.SDI_OBSERVER_REPOSITORY # Unset
                  THEN sh.SDI_OBSERVER_REPOSITORY
                  ELSE IF localTemplate THEN "path" ELSE "https"
       IN /\ sourceLocation' = loc
          /\ fileArg' = [loc |-> loc, pinned |-> loc = "https"]
    /\ pc' = "access"
    /\ UNCHANGED <<nsExists, nsRefused, user, FLAVOUR, ocServer, ocClient,
                   defaultSc, localTemplate,
                   sh, envVars, template, warned, args>>

(* Lines 220-243: with no access mode set, choose ReadWriteMany if the     *)
(* storage class named in SDI_REGISTRY_STORAGE_CLASS_NAME is an RWX class, *)
(* and also if the cluster's default storage class is one.                 *)
ChooseAccessMode ==
    /\ pc = "access"
    /\ IF /\ sh.SDI_REGISTRY_VOLUME_ACCESS_MODE = Unset
          /\ \/ sh.SDI_REGISTRY_STORAGE_CLASS_NAME \in RwxStorageClasses
             \/ defaultSc \in RwxStorageClasses
       THEN sh' = [sh EXCEPT !.SDI_REGISTRY_VOLUME_ACCESS_MODE = "ReadWriteMany"]
       ELSE UNCHANGED sh
    /\ pc' = "env"
    /\ UNCHANGED <<nsExists, nsRefused, user, FLAVOUR, ocServer, ocClient,
                   defaultSc, localTemplate,
                   envVars, template, warned, sourceLocation, fileArg, args>>

(* Lines 245-265: every variable of envVars with a value (its own, or the *)
(* default of envVarDefaults, lines 109-111) becomes a parameter; a        *)
(* repository that is not an http, https or ftp URL is replaced by gitRepo *)
(* and %%OCP_MINOR_RELEASE%% in an image pull spec by the release.         *)
EnvVarDefault(v) == IF v = "IMAGE_PULL_SPEC" THEN "macro" ELSE Unset

EnvValue(v) == IF sh[v] = Unset THEN EnvVarDefault(v) ELSE sh[v]

Expand(v, value) ==
    CASE v = "SDI_OBSERVER_REPOSITORY" ->
            IF value \in {"http", "https"} THEN value ELSE "https"
      [] v \in ImagePullSpecVars ->
            IF value = "macro" THEN sh.OCP_MINOR_RELEASE ELSE value
      [] OTHER -> value

(* Mutant: the default value is used as it is, without the substitution.   *)
CollectParamsNoExpand ==
    /\ pc = "env"
    /\ args' = [v \in {x \in envVars : EnvValue(x) # Unset} |->
                  IF sh[v] = Unset THEN EnvVarDefault(v) ELSE Expand(v, sh[v])]
    /\ pc' = "namespaces"
    /\ UNCHANGED <<nsExists, nsRefused, user, FLAVOUR, ocServer, ocClient,
                   defaultSc, localTemplate,
                   sh, envVars, template, warned, sourceLocation, fileArg>>

CollectParams ==
    /\ pc = "env"
    /\ args' = [v \in {x \in envVars : EnvValue(x) # Unset} |->
                  Expand(v, EnvValue(v))]
    /\ pc' = "namespaces"
    /\ UNCHANGED <<nsExists, nsRefused, user, FLAVOUR, ocServer, ocClient,
                   defaultSc, localTemplate,
                   sh, envVars, template, warned, sourceLocation, fileArg>>

(* Lines 268-272: the sorted, de-duplicated lines project/<ns> of the     *)
(* three namespaces are given to oc get, which prints those that exist    *)
(* and that the user may see (errors go to /dev/null); grep -v -x -f keeps *)
(* the lines no printed line matches, and each of them is passed to oc     *)
(* create namespace, whose failures are ignored (||:).                     *)
Wanted == {sh.NAMESPACE, sh.SDI_NAMESPACE, sh.SLCB_NAMESPACE}

(* Mutant: grep without -x matches a pattern anywhere in the line, and    *)
(* "project/sdi-observer" contains "project/sdi".                         *)
GrepMatchesNoX(line, pattern) ==
    line = pattern \/ (line = "sdi-observer" /\ pattern = "sdi")

(* grep -x: a line matches a pattern line only as a whole.                 *)
GrepMatches(line, pattern) == line = pattern

(* The cluster answers: which namespaces exist, which of those oc get      *)
(* lists, and which creations it refuses (no permission, quota).           *)
CreateNamespaces ==
    /\ pc = "namespaces"
    /\ \E existing \in SUBSET Wanted :
       \E listed \in SUBSET existing, denied \in SUBSET (Wanted \ existing) :
         LET missing == {n \in Wanted : ~\E m \in listed : GrepMatches(n, m)}
         IN /\ nsExists' = existing \cup (missing \ denied)
            /\ nsRefused' = missing \cap (existing \cup denied)
    /\ pc' = "apply"
    /\ UNCHANGED <<user, FLAVOUR, ocServer, ocClient, defaultSc, localTemplate,
                   sh, envVars, template, warned, sourceLocation, fileArg, args>>

(* Line 274: oc process -f <template> <parameters> | oc apply -f -.        *)
Apply ==
    /\ pc = "apply"
    /\ pc' = "done"
    /\ UNCHANGED <<nsExists, nsRefused, user, FLAVOUR, ocServer, ocClient,
                   defaultSc, localTemplate,
                   sh, envVars, template, warned, sourceLocation, fileArg, args>>

TNext ==
    \/ SelectFlavour \/ DetectRelease \/ CheckMismatch \/ LocateTemplate
    \/ ChooseAccessMode \/ CollectParams \/ CreateNamespaces \/ Apply

TSpec == TInit /\ [][TNext]_tvars

-----------------------------------------------------------------------------
TTypeOK ==
    /\ pc \in Pcs
    /\ user \in UserConfigs
    /\ FLAVOUR \in Flavours \cup {"other"}
    /\ envVars \subseteq VarNames
    /\ template \in Flavours \cup {Unset}
    /\ warned \in BOOLEAN
    /\ sourceLocation \in {Unset, "https", "http", "path"}
    /\ fileArg \in [loc : {Unset, "https", "http", "path"}, pinned : BOOLEAN]
    /\ DOMAIN args \subseteq envVars
    /\ nsExists \subseteq Wanted /\ nsRefused \subseteq Wanted

(* The release the objects are built for is the one oc runs against: the  *)
(* OCP_MINOR_RELEASE parameter is the user's setting or else the server's *)
(* minor (lines 147-164), the oc client that applies them is at most two  *)
(* minors away (lines 166-196, with the warning at exactly two), and every *)
(* image pull spec built from the macro names that same release.           *)
ReleaseConsistent ==
    pc = "done" =>
        LET r == args["OCP_MINOR_RELEASE"] IN
        /\ r = IF user.OCP_MINOR_RELEASE = Unset THEN ocServer
               ELSE user.OCP_MINOR_RELEASE
        /\ ocClient \in Releases
        /\ AbsDiff(MinorOf[r], MinorOf[ocClient]) <= 2
        /\ warned <=> AbsDiff(MinorOf[r], MinorOf[ocClient]) = 2
        /\ \A v \in DOMAIN args \cap ImagePullSpecVars : args[v] \in {"lit", r}

(* Every parameter handed to oc process belongs to the chosen template's   *)
(* flavour, has a value, and has no %%OCP_MINOR_RELEASE%% macro left in    *)
(* it: the defaults of envVarDefaults go through the same substitution as *)
(* the user's values (lines 245-265).                                      *)
ParametersResolved ==
    pc = "done" =>
        /\ DOMAIN args \subseteq CommonEnvVars \cup FlavourVars[FLAVOUR]
        /\ \A v \in DOMAIN args : args[v] \notin {Unset, "macro"}
        /\ "IMAGE_PULL_SPEC" \in envVars => "IMAGE_PULL_SPEC" \in DOMAIN args

(* The comment of line 46 says the registry volume uses the default        *)
(* storage class unless SDI_REGISTRY_STORAGE_CLASS_NAME is set: the       *)
(* ReadWriteMany mode the script picks by itself must be supported by the  *)
(* class the volume will actually get.                                     *)
AccessModeFitsClass ==
    (pc = "done" /\ user.SDI_REGISTRY_VOLUME_ACCESS_MODE = Unset
                 /\ sh.SDI_REGISTRY_VOLUME_ACCESS_MODE = "ReadWriteMany")
        => (IF user.SDI_REGISTRY_STORAGE_CLASS_NAME # Unset
            THEN user.SDI_REGISTRY_STORAGE_CLASS_NAME
            ELSE defaultSc) \in RwxStorageClasses

(* A template fetched from a remote repository is fetched at the revision *)
(* SDI_OBSERVER_GIT_REVISION names ("build the latest revision; change to *)
(* a particular tag if needed", lines 60-61), the same the build uses.     *)
TemplateRevisionPinned ==
    (pc = "done" /\ fileArg.loc \in {"https", "http"}) => fileArg.pinned

(* The comment of line 267: the namespaces are created if they do not      *)
(* exist yet.  When oc apply runs, each of NAMESPACE, SDI_NAMESPACE and    *)
(* SLCB_NAMESPACE exists, or the cluster refused to create it; a namespace *)
(* whose name contains another one's is not mistaken for it.               *)
NamespacesEnsured ==
    pc \in {"apply", "done"} =>
        \A n \in {user.NAMESPACE, user.SDI_NAMESPACE, user.SLCB_NAMESPACE} :
            n \in nsExists \/ n \in nsRefused
=============================================================================
