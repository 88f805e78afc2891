----------------------- MODULE ObserverTemplateProofs -----------------------
(***************************************************************************)
(* Proofs of the installer script's invariants for every set of releases   *)
(* and every minor numbering: TTypeOK, ReleaseConsistent,                  *)
(* ParametersResolved and NamespacesEnsured.  The script is one sequential *)
(* pass, so the inductive invariant says, for each block the script has   *)
(* passed, what that block has established, and that no later block       *)
(* undoes it.                                                              *)
(***************************************************************************)
EXTENDS ObserverTemplate, TLAPS

(* The blocks run before the script reaches each point.                    *)
AfterFlavour == {"server", "mismatch", "source", "access", "env",
                 "namespaces", "apply", "done"}
AfterServer == AfterFlavour \ {"server"}
AfterMismatch == AfterServer \ {"mismatch"}
AfterEnv == {"namespaces", "apply", "done"}

(* The shell variables: the user's values, with OCP_MINOR_RELEASE possibly *)
(* taken from the server and the access mode possibly chosen.              *)
ShConfigs ==
    [SDI_NAMESPACE : {"sdi"},
     NAMESPACE : {"sdi-observer", "sdi"},
     SLCB_NAMESPACE : {"sap-slcbridge"},
     OCP_MINOR_RELEASE : {Unset} \cup Releases,
     SDI_OBSERVER_REPOSITORY : {Unset, "https", "http", "path"},
     SDI_OBSERVER_GIT_REVISION : {"lit"},
     SDI_REGISTRY_STORAGE_CLASS_NAME : {Unset, "cephfs", "other"},
     SDI_REGISTRY_VOLUME_ACCESS_MODE : {Unset, "ReadWriteOnce", "ReadWriteMany"},
     IMAGE_PULL_SPEC : {Unset, "lit", "macro"},
     SOURCE_IMAGE_PULL_SPEC : {"lit"},
     REDHAT_REGISTRY_SECRET_NAME : {Unset}]

(* The release the script settles on (lines 147-164).                      *)
Rel == IF user.OCP_MINOR_RELEASE = Unset THEN ocServer ELSE user.OCP_MINOR_RELEASE

(* The parameters the loop of lines 245-265 builds from the shell.         *)
Params == [v \in {x \in envVars : EnvValue(x) # Unset} |-> Expand(v, EnvValue(v))]

TplInv ==
    /\ pc \in Pcs
    /\ user \in UserConfigs
    /\ sh \in ShConfigs
    /\ FLAVOUR \in Flavours \cup {"other"}
    /\ ocServer \in Releases \cup {None}
    /\ ocClient \in Releases \cup {None}
    /\ defaultSc \in {"cephfs", "other"}
    /\ localTemplate \in BOOLEAN
    /\ envVars \subseteq VarNames
    /\ template \in Flavours \cup {Unset}
    /\ warned \in BOOLEAN
    /\ sourceLocation \in {Unset, "https", "http", "path"}
    /\ fileArg \in [loc : {Unset, "https", "http", "path"}, pinned : BOOLEAN]
    /\ nsExists \subseteq Wanted /\ nsRefused \subseteq Wanted
    \* the shell keeps the user's values but for the two the script sets
    /\ sh.SDI_NAMESPACE = user.SDI_NAMESPACE
    /\ sh.NAMESPACE = user.NAMESPACE
    /\ sh.SLCB_NAMESPACE = user.SLCB_NAMESPACE
    /\ sh.SDI_OBSERVER_REPOSITORY = user.SDI_OBSERVER_REPOSITORY
    /\ sh.SDI_OBSERVER_GIT_REVISION = user.SDI_OBSERVER_GIT_REVISION
    /\ sh.SDI_REGISTRY_STORAGE_CLASS_NAME = user.SDI_REGISTRY_STORAGE_CLASS_NAME
    /\ sh.IMAGE_PULL_SPEC = user.IMAGE_PULL_SPEC
    /\ sh.SOURCE_IMAGE_PULL_SPEC = user.SOURCE_IMAGE_PULL_SPEC
    /\ sh.REDHAT_REGISTRY_SECRET_NAME = user.REDHAT_REGISTRY_SECRET_NAME
    \* lines 117-145
    /\ pc = "flavour" => envVars = CommonEnvVars
    /\ pc \in AfterFlavour =>
          FLAVOUR \in Flavours /\ envVars = CommonEnvVars \cup FlavourVars[FLAVOUR]
    \* lines 147-164
    /\ pc \in {"flavour", "server"} =>
          sh.OCP_MINOR_RELEASE = user.OCP_MINOR_RELEASE
    /\ pc \in AfterServer => Rel \in Releases /\ sh.OCP_MINOR_RELEASE = Rel
    \* lines 166-196
    /\ pc \in {"flavour", "server", "mismatch"} => ~warned
    /\ pc \in AfterMismatch =>
          /\ ocClient \in Releases
          /\ AbsDiff(MinorOf[Rel], MinorOf[ocClient]) <= 2
          /\ warned <=> AbsDiff(MinorOf[Rel], MinorOf[ocClient]) = 2
    \* lines 245-265
    /\ pc \notin AfterEnv => args = <<>>
    /\ pc \in AfterEnv => args = Params
    \* lines 268-272
    /\ pc \in {"apply", "done"} => Wanted \subseteq nsExists \cup nsRefused
-----------------------------------------------------------------------------
USE TemplateAssumption

LEMMA InitTpl == TInit => TplInv
<1>. SUFFICES ASSUME TInit PROVE TplInv
  OBVIOUS
<1>1. user \in UserConfigs /\ sh = user
  BY DEF TInit
<1>2. sh \in ShConfigs
  BY <1>1 DEF UserConfigs, ShConfigs
<1>3. args = <<>> /\ nsExists = {} /\ nsRefused = {}
  BY DEF TInit
<1>. QED  BY <1>1, <1>2, <1>3
          DEF TInit, TplInv, Pcs, AfterFlavour, AfterServer, AfterMismatch,
              AfterEnv, CommonEnvVars, VarNames
(* Every flavour's variables are among the script's variables.            *)
LEMMA FlavourVarsNames == \A f \in Flavours : FlavourVars[f] \subseteq VarNames
BY DEF FlavourVars, Flavours, VarNames, BuildEnvVars, RegistryEnvVars,
       ImagePullSpecVars

LEMMA SelectFlavourTpl ==
    ASSUME TplInv, SelectFlavour
    PROVE  TplInv'
<1>1. CASE FLAVOUR \in Flavours
  <2>1. /\ envVars' = CommonEnvVars \cup FlavourVars[FLAVOUR]
        /\ template' = FLAVOUR /\ pc' = "server"
        /\ UNCHANGED <<nsExists, nsRefused, user, FLAVOUR, ocServer, ocClient,
                       defaultSc, localTemplate,
                       sh, warned, sourceLocation, fileArg, args>>
    BY <1>1 DEF SelectFlavour, TplInv
  <2>2. envVars' \subseteq VarNames
    BY <1>1, <2>1, FlavourVarsNames DEF CommonEnvVars, VarNames
  <2>3. pc = "flavour"
    BY DEF SelectFlavour
  <2>. QED
    BY <1>1, <2>1, <2>2, <2>3
    DEF TplInv, Pcs, AfterFlavour, AfterServer, AfterMismatch, AfterEnv, Wanted
<1>2. CASE FLAVOUR \notin Flavours
  <2>1. /\ pc' = "exit"
        /\ UNCHANGED <<nsExists, nsRefused, user, FLAVOUR, ocServer, ocClient,
                       defaultSc, localTemplate,
                       sh, warned, sourceLocation, fileArg, args, envVars,
                       template>>
    BY <1>2 DEF SelectFlavour, Exit
  <2>2. pc = "flavour"
    BY DEF SelectFlavour
  <2>. QED
    BY <2>1, <2>2
    DEF TplInv, Pcs, AfterFlavour, AfterServer, AfterMismatch, AfterEnv, Wanted
<1>. QED  BY <1>1, <1>2
LEMMA DetectReleaseTpl ==
    ASSUME TplInv, DetectRelease
    PROVE  TplInv'
<1>1. /\ pc = "server"
      /\ UNCHANGED <<nsExists, nsRefused, user, FLAVOUR, ocServer, ocClient,
                     defaultSc, localTemplate,
                     envVars, template, warned, sourceLocation, fileArg, args>>
  BY DEF DetectRelease, Exit
<1>2. sh.OCP_MINOR_RELEASE = user.OCP_MINOR_RELEASE
  BY <1>1 DEF TplInv
<1>3. CASE sh.OCP_MINOR_RELEASE # Unset
  <2>1. pc' = "mismatch" /\ UNCHANGED sh
    BY <1>3 DEF DetectRelease, Exit
  <2>2. Rel \in Releases /\ sh.OCP_MINOR_RELEASE = Rel
    BY <1>2, <1>3 DEF Rel, TplInv, ShConfigs
  <2>. QED
    BY <1>1, <2>1, <2>2
    DEF TplInv, Pcs, AfterFlavour, AfterServer, AfterMismatch, AfterEnv,
        Wanted, Rel
<1>4. CASE sh.OCP_MINOR_RELEASE = Unset /\ ocServer # None
  <2>1. /\ sh' = [sh EXCEPT !.OCP_MINOR_RELEASE = ocServer]
        /\ pc' = "mismatch"
    BY <1>4 DEF DetectRelease, Exit
  <2>2. ocServer \in Releases /\ Rel = ocServer
    BY <1>2, <1>4 DEF Rel, TplInv
  <2>3. sh' \in ShConfigs
    BY <2>1, <2>2 DEF TplInv, ShConfigs
  <2>. QED
    BY <1>1, <2>1, <2>2, <2>3
    DEF TplInv, Pcs, AfterFlavour, AfterServer, AfterMismatch, AfterEnv,
        Wanted, Rel
<1>5. CASE sh.OCP_MINOR_RELEASE = Unset /\ ocServer = None
  <2>1. pc' = "exit" /\ UNCHANGED sh
    BY <1>5 DEF DetectRelease, Exit
  <2>. QED
    BY <1>1, <2>1
    DEF TplInv, Pcs, AfterFlavour, AfterServer, AfterMismatch, AfterEnv,
        Wanted
<1>. QED  BY <1>3, <1>4, <1>5

LEMMA CheckMismatchTpl ==
    ASSUME TplInv, CheckMismatch
    PROVE  TplInv'
<1>1. /\ pc = "mismatch"
      /\ UNCHANGED <<nsExists, nsRefused, user, FLAVOUR, ocServer, ocClient,
                     defaultSc, localTemplate,
                     sh, envVars, template, sourceLocation, fileArg, args>>
  BY DEF CheckMismatch, Exit
<1>2. /\ Rel \in Releases /\ sh.OCP_MINOR_RELEASE = Rel /\ ~warned
      /\ ocClient \in Releases \cup {None}
  BY <1>1 DEF TplInv, AfterServer, AfterFlavour
<1>3. MinorMismatch = IF ocClient = None THEN None
                      ELSE AbsDiff(MinorOf[Rel], MinorOf[ocClient])
  BY <1>2 DEF MinorMismatch
<1>4. CASE MinorMismatch \in {0, 1}
  <2>1. pc' = "source" /\ UNCHANGED warned
    BY <1>4 DEF CheckMismatch, Exit
  <2>2. ocClient \in Releases /\ AbsDiff(MinorOf[Rel], MinorOf[ocClient]) \in {0, 1}
    BY <1>2, <1>3, <1>4, TemplateAssumption
  <2>. QED
    BY <1>1, <1>2, <2>1, <2>2
    DEF TplInv, Pcs, AfterFlavour, AfterServer, AfterMismatch, AfterEnv,
        Wanted, Rel
<1>5. CASE MinorMismatch = 2
  <2>1. pc' = "source" /\ warned' = TRUE
    BY <1>5 DEF CheckMismatch, Exit
  <2>2. ocClient \in Releases /\ AbsDiff(MinorOf[Rel], MinorOf[ocClient]) = 2
    BY <1>2, <1>3, <1>5, TemplateAssumption
  <2>. QED
    BY <1>1, <1>2, <2>1, <2>2
    DEF TplInv, Pcs, AfterFlavour, AfterServer, AfterMismatch, AfterEnv,
        Wanted, Rel
<1>6. CASE MinorMismatch \notin {0, 1, 2}
  <2>1. pc' = "exit" /\ UNCHANGED warned
    BY <1>6 DEF CheckMismatch, Exit
  <2>. QED
    BY <1>1, <1>2, <2>1
    DEF TplInv, Pcs, AfterFlavour, AfterServer, AfterMismatch, AfterEnv,
        Wanted
<1>. QED  BY <1>4, <1>5, <1>6

LEMMA LocateTemplateTpl ==
    ASSUME TplInv, LocateTemplate
    PROVE  TplInv'
<1>1. /\ pc = "source" /\ pc' = "access"
      /\ UNCHANGED <<nsExists, nsRefused, user, FLAVOUR, ocServer, ocClient,
                     defaultSc, localTemplate,
                     sh, envVars, template, warned, args>>
  BY DEF LocateTemplate
<1>2. /\ sourceLocation' \in {Unset, "https", "http", "path"}
      /\ fileArg' \in [loc : {Unset, "https", "http", "path"}, pinned : BOOLEAN]
  BY DEF LocateTemplate, TplInv, ShConfigs
<1>. QED
  BY <1>1, <1>2
  DEF TplInv, Pcs, AfterFlavour, AfterServer, AfterMismatch, AfterEnv,
      Wanted, Rel, Params, EnvValue, Expand, EnvVarDefault

LEMMA ChooseAccessModeTpl ==
    ASSUME TplInv, ChooseAccessMode
    PROVE  TplInv'
<1>1. /\ pc = "access" /\ pc' = "env"
      /\ UNCHANGED <<nsExists, nsRefused, user, FLAVOUR, ocServer, ocClient,
                     defaultSc, localTemplate,
                     envVars, template, warned, sourceLocation, fileArg, args>>
  BY DEF ChooseAccessMode
<1>2. /\ sh' \in ShConfigs
      /\ \A f \in {"SDI_NAMESPACE", "NAMESPACE", "SLCB_NAMESPACE",
                   "OCP_MINOR_RELEASE", "SDI_OBSERVER_REPOSITORY",
                   "SDI_OBSERVER_GIT_REVISION", "SDI_REGISTRY_STORAGE_CLASS_NAME",
                   "IMAGE_PULL_SPEC", "SOURCE_IMAGE_PULL_SPEC",
                   "REDHAT_REGISTRY_SECRET_NAME"} : sh'[f] = sh[f]
  BY DEF ChooseAccessMode, TplInv, ShConfigs
<1>. QED
  BY <1>1, <1>2
  DEF TplInv, Pcs, AfterFlavour, AfterServer, AfterMismatch, AfterEnv,
      Wanted, Rel

LEMMA CollectParamsTpl ==
    ASSUME TplInv, CollectParams
    PROVE  TplInv'
<1>1. /\ pc = "env" /\ pc' = "namespaces"
      /\ UNCHANGED <<nsExists, nsRefused, user, FLAVOUR, ocServer, ocClient,
                     defaultSc, localTemplate,
                     sh, envVars, template, warned, sourceLocation, fileArg>>
  BY DEF CollectParams
<1>2. args' = Params'
  BY <1>1 DEF CollectParams, Params, EnvValue, EnvVarDefault, Expand
<1>. QED
  BY <1>1, <1>2
  DEF TplInv, Pcs, AfterFlavour, AfterServer, AfterMismatch, AfterEnv,
      Wanted, Rel

LEMMA CreateNamespacesTpl ==
    ASSUME TplInv, CreateNamespaces
    PROVE  TplInv'
<1>1. /\ pc = "namespaces" /\ pc' = "apply"
      /\ UNCHANGED <<user, FLAVOUR, ocServer, ocClient, defaultSc, localTemplate,
                     sh, envVars, template, warned, sourceLocation, fileArg, args>>
  BY DEF CreateNamespaces
<1>2. /\ nsExists' \subseteq Wanted /\ nsRefused' \subseteq Wanted
      /\ Wanted \subseteq nsExists' \cup nsRefused'
  <2>1. PICK existing \in SUBSET Wanted :
           \E listed \in SUBSET existing, denied \in SUBSET (Wanted \ existing) :
             LET missing == {n \in Wanted : ~\E m \in listed : GrepMatches(n, m)}
             IN /\ nsExists' = existing \cup (missing \ denied)
                /\ nsRefused' = missing \cap (existing \cup denied)
    BY DEF CreateNamespaces
  <2>2. PICK listed \in SUBSET existing, denied \in SUBSET (Wanted \ existing) :
           LET missing == {n \in Wanted : ~\E m \in listed : GrepMatches(n, m)}
           IN /\ nsExists' = existing \cup (missing \ denied)
              /\ nsRefused' = missing \cap (existing \cup denied)
    BY <2>1
  <2>3. Wanted' = Wanted
    BY <1>1 DEF Wanted
  <2>. QED  BY <2>2, <2>3 DEF GrepMatches
<1>. QED
  BY <1>1, <1>2
  DEF TplInv, Pcs, AfterFlavour, AfterServer, AfterMismatch, AfterEnv,
      Wanted, Rel, Params, EnvValue, EnvVarDefault, Expand

LEMMA ApplyTpl ==
    ASSUME TplInv, Apply
    PROVE  TplInv'
BY DEF Apply, TplInv, Pcs, AfterFlavour, AfterServer, AfterMismatch, AfterEnv,
       Wanted, Rel, Params, EnvValue, EnvVarDefault, Expand

LEMMA NextTpl == TplInv /\ [TNext]_tvars => TplInv'
<1>. SUFFICES ASSUME TplInv, [TNext]_tvars PROVE TplInv'
  OBVIOUS
<1>1. CASE UNCHANGED tvars
  BY <1>1 DEF tvars, TplInv, Pcs, AfterFlavour, AfterServer, AfterMismatch,
              AfterEnv, Wanted, Rel, Params, EnvValue, EnvVarDefault, Expand,
              ShConfigs
<1>. QED
  BY <1>1, SelectFlavourTpl, DetectReleaseTpl, CheckMismatchTpl,
     LocateTemplateTpl, ChooseAccessModeTpl, CollectParamsTpl,
     CreateNamespacesTpl, ApplyTpl
  DEF TNext

LEMMA TplInvHolds == TSpec => []TplInv
BY InitTpl, NextTpl, PTL DEF TSpec

-----------------------------------------------------------------------------
(* The facts the four properties read off the inductive invariant.         *)

LEMMA TplTyped == TplInv => TTypeOK
<1>. SUFFICES ASSUME TplInv PROVE TTypeOK
  OBVIOUS
<1>1. DOMAIN args \subseteq envVars
  <2>1. CASE pc \in AfterEnv
    BY <2>1 DEF TplInv, Params
  <2>2. CASE pc \notin AfterEnv
    BY <2>2 DEF TplInv
  <2>. QED  BY <2>1, <2>2
<1>2. user \in UserConfigs /\ nsExists \subseteq Wanted /\ nsRefused \subseteq Wanted
  BY DEF TplInv
<1>. QED  BY <1>1, <1>2 DEF TplInv, TTypeOK

(* The installer's variables are typed at every step of every run, for    *)
(* every numbering of the OpenShift releases.                              *)
THEOREM TemplateTypeCorrect == TSpec => []TTypeOK
BY TplInvHolds, TplTyped, PTL

(* Once the parameters are built, the OCP_MINOR_RELEASE parameter is the   *)
(* release the script settled on.                                          *)
LEMMA ReleaseParam ==
    ASSUME TplInv, pc \in AfterEnv
    PROVE  /\ "OCP_MINOR_RELEASE" \in DOMAIN args
           /\ args["OCP_MINOR_RELEASE"] = Rel
<1>1. /\ args = Params /\ "OCP_MINOR_RELEASE" \in envVars
      /\ sh.OCP_MINOR_RELEASE = Rel /\ Rel \in Releases
  BY DEF TplInv, AfterEnv, AfterFlavour, AfterServer, CommonEnvVars
<1>2. EnvValue("OCP_MINOR_RELEASE") = Rel
  BY <1>1 DEF EnvValue
<1>3. Expand("OCP_MINOR_RELEASE", Rel) = Rel
  BY DEF Expand, ImagePullSpecVars
<1>. QED  BY <1>1, <1>2, <1>3 DEF Params

(* An image pull spec parameter is the literal or the settled release.     *)
LEMMA ImageParam ==
    ASSUME TplInv, pc \in AfterEnv, NEW v \in DOMAIN args \cap ImagePullSpecVars
    PROVE  args[v] \in {"lit", Rel}
<1>1. /\ args = Params /\ sh.OCP_MINOR_RELEASE = Rel /\ sh \in ShConfigs
  BY DEF TplInv, AfterEnv, AfterFlavour, AfterServer
<1>2. EnvValue(v) \in {"lit", "macro"}
  BY <1>1 DEF EnvValue, EnvVarDefault, ShConfigs, ImagePullSpecVars, Params
<1>3. args[v] = Expand(v, EnvValue(v))
  BY <1>1 DEF Params
<1>. QED  BY <1>1, <1>2, <1>3 DEF Expand, ImagePullSpecVars

LEMMA TplRelease == TplInv => ReleaseConsistent
<1>. SUFFICES ASSUME TplInv, pc = "done" PROVE ReleaseConsistent
  BY DEF ReleaseConsistent
<1>1. pc \in AfterEnv /\ pc \in AfterMismatch
  BY DEF AfterEnv, AfterMismatch, AfterServer, AfterFlavour
<1>2. args["OCP_MINOR_RELEASE"] = Rel
  BY <1>1, ReleaseParam
<1>3. \A v \in DOMAIN args \cap ImagePullSpecVars : args[v] \in {"lit", Rel}
  BY <1>1, ImageParam
<1>. QED  BY <1>1, <1>2, <1>3 DEF TplInv, ReleaseConsistent, Rel

(* In every run that reaches oc apply, whatever releases exist and however *)
(* their minors are numbered: the OCP_MINOR_RELEASE parameter is the       *)
(* user's or else the server's release, the oc client is at most two       *)
(* minors from it with the warning printed exactly at two, and every image *)
(* pull spec made from %%OCP_MINOR_RELEASE%% names that release (lines     *)
(* 147-196 and 245-265).                                                   *)
THEOREM ReleaseConsistentHolds == TSpec => []ReleaseConsistent
BY TplInvHolds, TplRelease, PTL

(* The empty value differs from every literal value the script handles.    *)
(* Unset stays opaque elsewhere: the SMT backend cannot encode "".         *)
LEMMA UnsetDistinct == Unset \notin {"https", "http", "lit", "macro"}
BY Zenon DEF Unset

(* No shell variable but IMAGE_PULL_SPEC can hold the macro.                *)
LEMMA MacroOnlyInImage ==
    ASSUME TplInv, NEW v \in VarNames \ {"IMAGE_PULL_SPEC"}
    PROVE  sh[v] # "macro"
<1>1. sh \in ShConfigs
  BY DEF TplInv
<1>. QED  BY <1>1, UnsetDistinct DEF ShConfigs, VarNames, CommonEnvVars,
                                      BuildEnvVars, RegistryEnvVars,
                                      ImagePullSpecVars

(* Every parameter has a value other than the empty one and the macro.     *)
LEMMA ParamResolved ==
    ASSUME TplInv, pc \in AfterEnv, NEW v \in DOMAIN args
    PROVE  args[v] \notin {Unset, "macro"}
<1>1. /\ args = Params /\ sh.OCP_MINOR_RELEASE = Rel /\ Rel \in Releases
      /\ envVars \subseteq VarNames
  BY DEF TplInv, AfterEnv, AfterFlavour, AfterServer
<1>2. v \in envVars /\ EnvValue(v) # Unset /\ args[v] = Expand(v, EnvValue(v))
  BY <1>1 DEF Params
<1>3. CASE v = "SDI_OBSERVER_REPOSITORY"
  <2>1. Expand(v, EnvValue(v)) \in {"http", "https"}
    BY <1>3 DEF Expand, ImagePullSpecVars
  <2>. QED  BY <1>2, <2>1, UnsetDistinct
<1>4. CASE v \in ImagePullSpecVars
  <2>1. EnvValue(v) \in {"lit", "macro"}
    BY <1>2, <1>4, TplInv DEF TplInv, EnvValue, EnvVarDefault, ShConfigs,
                               ImagePullSpecVars
  <2>. QED  BY <1>1, <1>2, <1>4, <2>1, UnsetDistinct
            DEF Expand, ImagePullSpecVars
<1>5. CASE v # "SDI_OBSERVER_REPOSITORY" /\ v \notin ImagePullSpecVars
  <2>1. args[v] = EnvValue(v)
    BY <1>2, <1>5 DEF Expand
  <2>2. EnvValue(v) = sh[v]
    BY <1>2, <1>5 DEF EnvValue, EnvVarDefault, ImagePullSpecVars
  <2>3. sh[v] # "macro"
    BY <1>1, <1>2, <1>5, MacroOnlyInImage DEF ImagePullSpecVars
  <2>. QED  BY <1>2, <2>1, <2>2, <2>3
<1>. QED  BY <1>3, <1>4, <1>5

LEMMA TplResolved == TplInv => ParametersResolved
<1>. SUFFICES ASSUME TplInv, pc = "done" PROVE ParametersResolved
  BY DEF ParametersResolved
<1>1. pc \in AfterEnv /\ pc \in AfterFlavour
  BY DEF AfterEnv, AfterFlavour
<1>2. /\ args = Params
      /\ envVars = CommonEnvVars \cup FlavourVars[FLAVOUR]
      /\ sh \in ShConfigs
  BY <1>1 DEF TplInv
<1>3. DOMAIN args \subseteq CommonEnvVars \cup FlavourVars[FLAVOUR]
  BY <1>2 DEF Params
<1>4. \A v \in DOMAIN args : args[v] \notin {Unset, "macro"}
  BY <1>1, ParamResolved
<1>5. "IMAGE_PULL_SPEC" \in envVars => "IMAGE_PULL_SPEC" \in DOMAIN args
  <2>1. EnvValue("IMAGE_PULL_SPEC") # Unset
    BY <1>2, UnsetDistinct DEF EnvValue, EnvVarDefault
  <2>. QED  BY <1>2, <2>1 DEF Params
<1>. QED  BY <1>3, <1>4, <1>5 DEF ParametersResolved

(* In every run that reaches oc apply, every parameter handed to oc       *)
(* process belongs to the template's flavour and has a value with no      *)
(* %%OCP_MINOR_RELEASE%% macro left, and the IMAGE_PULL_SPEC of the       *)
(* prebuilt flavour is always passed (lines 109-111 and 245-265).          *)
THEOREM ParametersResolvedHolds == TSpec => []ParametersResolved
BY TplInvHolds, TplResolved, PTL

LEMMA TplNamespaces == TplInv => NamespacesEnsured
BY DEF TplInv, NamespacesEnsured, Wanted

(* When oc apply runs, each of the three namespaces exists or the cluster *)
(* refused to create it, for every answer of oc get and oc create         *)
(* (lines 268-272).                                                        *)
THEOREM NamespacesEnsuredHolds == TSpec => []NamespacesEnsured
BY TplInvHolds, TplNamespaces, PTL
=============================================================================
