------------------------------- MODULE Config -------------------------------
(* config: finding .env and config.yaml, and the order in which their values,*)
(* the environment and the secrets end up in the configuration.  A leaf is a *)
(* key of the configuration; a value is told apart by where it comes from.   *)
EXTENDS Naturals

CONSTANTS
  Top, Nested,    \* leaves at the top level and below another key
  Depth           \* directories between the root of the file system and the current one

ASSUME ConfigAssumption == Top \cap Nested = {} /\ Depth \in Nat

VARIABLES
  world,   \* what is outside: the files, the environment, whether this is a test
  conf     \* the load in progress

configVars == <<world, conf>>

Leaves == Top \cup Nested
Levels == 0 .. Depth
Files  == {".env", "config.yaml"}

SecretForms == {"<secret>", "<secret:key>", "<secret:>", "<secretive>"}

\* In a test the file system varies, and without one what the files say.
SameLayout == {[f \in Files |-> x] : x \in [Levels -> SUBSET {"test", "here"}]}
InCurrent  == {[f \in Files |-> [n \in Levels |-> IF n = Depth /\ f \in fs THEN {"here"} ELSE {}]]
                : fs \in SUBSET Files}

Worlds ==
  [testing : {TRUE}, root : {FALSE}, envType : {"test"}, mods : SUBSET Levels, found : SameLayout,
   yaml : [Leaves -> {"yaml"}], dotenv : [Leaves -> {"none"}], os : [Leaves -> {"none"}]]
  \cup
  [testing : {FALSE}, root : BOOLEAN, envType : {"test", "prod"}, mods : {{}}, found : InCurrent,
   yaml : [Leaves -> {"none", "yaml"} \cup SecretForms], dotenv : [Leaves -> {"none", "dotenv"}],
   os : [Leaves -> {"none", "env", "<secret>"}]]

NewLoad ==
  [pc |-> "find", file |-> ".env", level |-> Depth, at |-> <<>>, env |-> world.os,
   val |-> [l \in Leaves |-> "none"], todo |-> {}]

ConfigInit == world \in Worlds /\ conf = NewLoad

Loading(pc) == conf.pc = pc /\ UNCHANGED world

-----------------------------------------------------------------------------
\* findConfigFile: not testing, the current directory; otherwise recursiveFileFinder, the
\* folder test, the folder itself, and one level up unless go.mod is here.  The parent of
\* the root is the root, and the search does not notice that it is there.
Here(level) == world.found[conf.file][level]

Found(where) == [conf EXCEPT !.pc = "load", !.at = <<conf.level, where>>]
NotFound     == [conf EXCEPT !.pc = "load", !.at = <<>>]

findConfigFile ==
  /\ Loading("find") /\ ~world.testing
  /\ conf' = IF "here" \in Here(Depth) THEN Found("here") ELSE NotFound

\* Mutant: the parent directory is never reached.
recursiveFileFinder_Stays ==
  /\ Loading("find") /\ world.testing
  /\ conf' = CASE "test" \in Here(conf.level) -> Found("test")
               [] "test" \notin Here(conf.level) /\ "here" \in Here(conf.level) -> Found("here")
               [] Here(conf.level) = {} /\ conf.level \in world.mods -> NotFound
               [] OTHER -> conf

recursiveFileFinder ==
  /\ Loading("find") /\ world.testing
  /\ conf' = CASE "test" \in Here(conf.level) -> Found("test")
               [] "test" \notin Here(conf.level) /\ "here" \in Here(conf.level) -> Found("here")
               [] Here(conf.level) = {} /\ conf.level \in world.mods -> NotFound
               [] OTHER -> [conf EXCEPT !.level = IF @ = 0 THEN 0 ELSE @ - 1]

\* statFile fails for another reason, which both callers turn into a panic.
StatFails == Loading("find") /\ conf' = [conf EXCEPT !.pc = "panic"]

\* Mutant: the file overwrites what is set.
loadDotEnv_Overload ==
  /\ Loading("load") /\ conf.file = ".env"
  /\ conf' = [conf EXCEPT !.pc = "find", !.file = "config.yaml", !.level = Depth,
                !.env = [l \in Leaves |-> IF conf.at # <<>> /\ world.dotenv[l] # "none" THEN world.dotenv[l] ELSE @[l]]]

\* loadDotEnv: a variable that is set is not overwritten; without the file nothing is.
loadDotEnv ==
  /\ Loading("load") /\ conf.file = ".env"
  /\ conf' = [conf EXCEPT !.pc = "find", !.file = "config.yaml", !.level = Depth,
                !.env = [l \in Leaves |-> IF conf.at # <<>> /\ @[l] = "none" THEN world.dotenv[l] ELSE @[l]]]

\* loadConfigYaml and the first decoding: without the file, a panic.
loadConfigYaml ==
  /\ Loading("load") /\ conf.file = "config.yaml"
  /\ conf' = IF conf.at = <<>> THEN [conf EXCEPT !.pc = "panic"]
             ELSE [conf EXCEPT !.pc = "bind", !.val = world.yaml]

\* Environment variables replace the values of the leaves they name; then loadSecrets,
\* unless this is the root configuration or a test environment.
bindEnvVars ==
  /\ Loading("bind")
  /\ LET val == [l \in Leaves |-> IF conf.env[l] # "none" THEN conf.env[l] ELSE conf.val[l]]
     IN  conf' = [conf EXCEPT !.pc = "secrets", !.val = val,
                    !.todo = IF world.root \/ world.envType = "test" THEN {}
                             ELSE {l \in Leaves : val[l] \in SecretForms}]

\* traverse, in the order of a map: an ill-formed placeholder panics, and so does a
\* secret that cannot be loaded.  The secret is stored under the full key in the innermost
\* map, which for a nested leaf is a key that no field has.
StoreSecret(l, secret) == IF l \in Top THEN [conf.val EXCEPT ![l] = secret] ELSE conf.val

Secret(v) == IF v = "<secret>" THEN "secret" ELSE "verbatim"

traverse(l, ok) ==
  /\ Loading("secrets") /\ l \in conf.todo
  /\ conf' = IF conf.val[l] \in {"<secret>", "<secret:key>"} /\ ok
             THEN [conf EXCEPT !.todo = @ \ {l}, !.val = StoreSecret(l, Secret(conf.val[l]))]
             ELSE [conf EXCEPT !.pc = "panic"]

\* The second decoding; a leaf that is nowhere keeps its zero.
Decode == Loading("secrets") /\ conf.todo = {} /\ conf' = [conf EXCEPT !.pc = "done"]

\* A file cannot be read or parsed, or does not fit the configuration: a panic.
LoadFails ==
  /\ UNCHANGED world
  /\ (conf.pc = "load" /\ conf.at # <<>>) \/ (conf.pc = "secrets" /\ conf.todo = {})
  /\ conf' = [conf EXCEPT !.pc = "panic"]

Finder == findConfigFile \/ recursiveFileFinder

ConfigNext ==
  \/ findConfigFile \/ recursiveFileFinder \/ StatFails \/ loadDotEnv \/ loadConfigYaml
  \/ bindEnvVars \/ Decode \/ LoadFails
  \/ \E l \in Leaves, ok \in BOOLEAN : traverse(l, ok)

ConfigSpec == ConfigInit /\ [][ConfigNext]_configVars

-----------------------------------------------------------------------------
\* What the configuration should hold for a leaf before secrets are looked up.
Chosen(l) ==
  IF world.os[l] # "none" THEN world.os[l]
  ELSE IF "here" \in world.found[".env"][Depth] /\ world.dotenv[l] # "none"
  THEN world.dotenv[l] ELSE world.yaml[l]

LooksUpSecrets == ~world.root /\ world.envType # "test"

\* A file that is found is the nearest one: none is below it, and no go.mod of a
\* directory below ended the search (recursiveFileFinder).
FoundIsNearest ==
  conf.pc = "load" /\ conf.at # <<>> =>
    \A n \in Levels : n > conf.at[1] => world.found[conf.file][n] = {} /\ n \notin world.mods

\* From the nearest files, the process environment before .env before config.yaml, for
\* every leaf, and where secrets are looked up no configuration is returned with an
\* unresolved placeholder at its top level (loadConfig, from the files to the second
\* decoding).
LoadedByPrecedence ==
  /\ FoundIsNearest
  /\ conf.pc = "done" => \A l \in Leaves :
       IF LooksUpSecrets /\ l \in Top /\ Chosen(l) \in SecretForms
       THEN conf.val[l] = Secret(Chosen(l))
       ELSE conf.val[l] = Chosen(l)

\* The search ends if some directory on the way up has the file or a go.mod.
Bounded == \E n \in Levels : n \in world.mods \/ Here(n) # {}

\* README.md:77, of the leaf database.pass: "pass: <secret> # It will be loaded from a
\* SecretManager."  A nested leaf with this placeholder gets its secret.
DocNestedSecret ==
  conf.pc = "done" /\ LooksUpSecrets =>
    \A l \in Nested : Chosen(l) = "<secret>" => conf.val[l] = "secret"
=============================================================================
