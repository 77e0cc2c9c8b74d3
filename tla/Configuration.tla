--------------------------- MODULE Configuration ----------------------------
(***************************************************************************)
(* How a legacy configuration becomes settings: `bytebox config migrate`   *)
(* (config_migration.py) turns a YAML or env file of the old program into  *)
(* one of this, and load_settings (config.py) merges defaults, a YAML      *)
(* file, the environment and explicit overrides.                           *)
(*                                                                         *)
(* A path is a sequence of keys.  An environment variable is its prefix    *)
(* and the path that its name stands for; that names are upper case, and   *)
(* keys lower case, is left out.  What pydantic accepts as a value is too. *)
(***************************************************************************)
EXTENDS Integers, Sequences

CONSTANTS
    Defaults,       \* the value of every setting that no source mentions
    PathSettings,   \* settings that are paths, which are renamed
    SecretPaths,    \* settings that are secrets
    Renamed,        \* what _rewrite_legacy_path_value makes of a value
    YamlFiles,      \* pairs: settings at the top, and under memory_store
    EnvFiles,       \* sequences of lines
    Environments,   \* settings that the environment gives
    Overrides       \* settings that the caller gives

None == "None"

Section == "Section"

Paths == DOMAIN Defaults

(* What load_settings takes back in production, unless somebody asked for it. *)
DebugPaths == {<<"retrieval", "include_component_scores">>,
               <<"retrieval", "include_debug">>}

NamePrefixes == {"MEMORY_STORE_", "BYTEBOX_", ""}

Lines == [prefix : NamePrefixes, path : Paths, value : STRING \ {Section}]

Name(line) == <<line.prefix, line.path>>

SomeOf(maps) == \A s \in maps :
    /\ DOMAIN s \subseteq Paths
    /\ \A p \in DOMAIN s : s[p] # Section

ASSUME ConfigurationAssumption ==
    /\ \A p \in Paths : p \in Seq(STRING) /\ Len(p) > 1 /\ p[1] # "memory_store"
    /\ \A p, q \in Paths : \A n \in 1 .. Len(p) - 1 : SubSeq(p, 1, n) # q
    /\ SomeOf({Defaults})
    /\ <<"application", "environment">> \in Paths
    /\ DebugPaths \cup PathSettings \cup SecretPaths \subseteq Paths
    /\ PathSettings \cap SecretPaths = {}
    /\ \A p \in SecretPaths : Defaults[p] = None
    /\ {None, Section} \cap DOMAIN Renamed = {}
    /\ \A v \in DOMAIN Renamed : Renamed[v] \notin DOMAIN Renamed \cup {Section}
    /\ \A file \in YamlFiles : SomeOf({file[1], file[2]})
    /\ \A file \in EnvFiles :
         /\ file \in Seq(Lines)
         /\ \A j, k \in 1 .. Len(file) : Name(file[j]) = Name(file[k]) => j = k
    /\ SomeOf(Environments) /\ SomeOf(Overrides)

VARIABLES
    source,     \* the legacy file: its format, and what is in it
    preview,    \* what the migration makes of it
    actions,    \* what it reports
    given,      \* the environment and the overrides of the next start
    settings,   \* what load_settings returns
    phase

configVars == <<source, preview, actions, given, settings, phase>>

-----------------------------------------------------------------------------
(* A nested dictionary: a function of the paths of all that is in it, to a *)
(* value or, where there is a dictionary, to Section.                      *)
Above(p) == {SubSeq(p, 1, n) : n \in 1 .. Len(p) - 1}

Within(path, p) == p = path \/ path \in Above(p)

(* The dictionary that holds the given settings: _set_nested of each, or   *)
(* _assign_nested of config.py.                                            *)
TreeOf(leaves) ==
    [p \in DOMAIN leaves \cup UNION {Above(q) : q \in DOMAIN leaves} |->
       IF p \in DOMAIN leaves THEN leaves[p] ELSE Section]

(* _get_nested *)
GetNested(tree, p) == IF p \in DOMAIN tree THEN tree[p] ELSE None

(* _mapping_has_path *)
Mentions(tree, p) == p \in DOMAIN tree

(* _pop_nested of each of the paths; an emptied dictionary stays. *)
Without(tree, paths) ==
    [p \in {q \in DOMAIN tree : \A path \in paths : ~Within(path, q)} |-> tree[p]]

(* dict.update: a section of the second takes the place of the first's. *)
Update(base, incoming) ==
    [p \in DOMAIN incoming \cup {q \in DOMAIN base : ~Mentions(incoming, <<q[1]>>)} |->
       IF p \in DOMAIN incoming THEN incoming[p] ELSE base[p]]

(* _deep_merge: what is in a section of both stays, unless it is replaced. *)
DeepMerge(base, incoming) ==
    [p \in DOMAIN incoming \cup
           {q \in DOMAIN base : \A a \in Above(q) \cap DOMAIN incoming : incoming[a] = Section} |->
       IF p \in DOMAIN incoming THEN incoming[p] ELSE base[p]]

-----------------------------------------------------------------------------
(* The migration. *)
Report(kind, p) == [kind |-> kind, source |-> p]

Rewritten(v) == IF v \in DOMAIN Renamed THEN Renamed[v] ELSE v

LegacyRoot == <<"memory_store">>

UnderRoot(tree) ==
    [p \in {Tail(q) : q \in {r \in DOMAIN tree : LegacyRoot \in Above(r)}} |->
       tree[LegacyRoot \o p]]

HasRoot(tree) == GetNested(tree, LegacyRoot) = Section

(* merged.update(migrated): the section at the top wins as a whole. *)
LiftRoot(tree) ==
    LET rest == Without(tree, {LegacyRoot})
    IN  IF HasRoot(tree) THEN Update(UnderRoot(tree), rest) ELSE rest

(* _rewrite_yaml_path of each of the paths, none of which is in another. *)
RewritePaths(tree) ==
    [p \in DOMAIN tree |-> IF p \in PathSettings THEN Rewritten(tree[p]) ELSE tree[p]]

(* mutant: the secrets are taken out before the root is lifted *)
MigrateSecretsFirst(tree) == RewritePaths(LiftRoot(Without(tree, SecretPaths)))

(* _migrate_yaml_mapping *)
MigrateYaml(tree) == Without(RewritePaths(LiftRoot(tree)), SecretPaths)

YamlActions(tree) ==
    LET lifted == LiftRoot(tree)
    IN  {Report("lift_legacy_root", p) : p \in {q \in {LegacyRoot} : HasRoot(tree)}}
        \cup {Report("rewrite_path", p) :
                p \in {q \in PathSettings : GetNested(lifted, q) \in DOMAIN Renamed}}
        \cup {Report("remove_secret", p) :
                p \in {q \in SecretPaths : GetNested(lifted, q) # None}}

(* The loop of _migrate_env_file assigns one line after the other: of two  *)
(* with the same target the later is left.  An env file is its lines by    *)
(* their number; once the targets differ their order does not matter, and  *)
(* the lines that are left keep their numbers.                             *)
Target(line) ==
    [line EXCEPT !.prefix = IF @ = "MEMORY_STORE_" THEN "BYTEBOX_" ELSE @]

IsOurs(line) == Target(line).prefix = "BYTEBOX_"

IsSecret(line) == IsOurs(line) /\ line.path \in SecretPaths

IsPath(line) == IsOurs(line) /\ line.path \in PathSettings

MigrateLine(line) ==
    [Target(line) EXCEPT !.value = IF IsPath(line) THEN Rewritten(@) ELSE @]

LeftLines(lines) ==
    {j \in DOMAIN lines :
       /\ ~IsSecret(lines[j])
       /\ \A k \in DOMAIN lines : Name(Target(lines[k])) = Name(Target(lines[j])) => k <= j}

MigrateEnv(lines) == [j \in LeftLines(lines) |-> MigrateLine(lines[j])]

EnvActions(lines) ==
    LET LinesThat(Is(_)) == {lines[j] : j \in {k \in DOMAIN lines : Is(lines[k])}}
        IsLegacy(l)  == l.prefix = "MEMORY_STORE_"
        IsRenamed(l) == IsPath(l) /\ l.value \in DOMAIN Renamed
    IN  {Report("rename_env_prefix", l.path) : l \in LinesThat(IsLegacy)}
        \cup {Report("remove_secret", l.path) : l \in LinesThat(IsSecret)}
        \cup {Report("rewrite_path", l.path) : l \in LinesThat(IsRenamed)}

-----------------------------------------------------------------------------
(* load_settings *)

(* _read_environment *)
ReadEnvironment(variables) == TreeOf(variables)

Over(f, g) == [p \in DOMAIN f \cup DOMAIN g |-> IF p \in DOMAIN g THEN g[p] ELSE f[p]]

(* _apply_environment_defaults *)
ApplyEnvironmentDefaults(merged, sources) ==
    LET unasked == {p \in DebugPaths : \A tree \in sources : ~Mentions(tree, p)}
    IN  IF GetNested(merged, <<"application", "environment">>) = "production"
        THEN Over(merged, [p \in unasked |-> "False"])
        ELSE merged

Merged(yaml, environment, overrides) ==
    DeepMerge(DeepMerge(DeepMerge(TreeOf(Defaults), yaml), environment), overrides)

(* The variables of a migrated env file, and those set otherwise, which    *)
(* take precedence.                                                        *)
Exported(lines) ==
    LET ours == {j \in DOMAIN lines : lines[j].prefix = "BYTEBOX_"}
    IN  [p \in {lines[j].path : j \in ours} |->
           lines[CHOOSE j \in ours : lines[j].path = p].value]

-----------------------------------------------------------------------------
Ungiven == [environment |-> << >>, overrides |-> << >>]

ConfigInit ==
    /\ \/ \E file \in YamlFiles :
            source = [format |-> "yaml", top |-> file[1], root |-> file[2], lines |-> << >>]
       \/ \E lines \in EnvFiles :
            source = [format |-> "env", top |-> << >>, root |-> << >>, lines |-> lines]
    /\ preview = [tree |-> << >>, lines |-> << >>]
    /\ actions = {}
    /\ given = Ungiven
    /\ settings = << >>
    /\ phase = "legacy"

(* _load_yaml: what is in the file; memory_store is a section like others. *)
UnderLegacyRoot(leaves) ==
    [p \in {LegacyRoot \o q : q \in DOMAIN leaves} |-> leaves[Tail(p)]]

Loaded == TreeOf(Over(source.top, UnderLegacyRoot(source.root)))

(* migrate_legacy_config *)
MigrateLegacyConfig ==
    /\ phase = "legacy"
    /\ IF source.format = "yaml"
       THEN /\ preview' = [preview EXCEPT !.tree = MigrateYaml(Loaded)]
            /\ actions' = YamlActions(Loaded)
       ELSE /\ preview' = [preview EXCEPT !.lines = MigrateEnv(source.lines)]
            /\ actions' = EnvActions(source.lines)
    /\ phase' = "migrated"
    /\ UNCHANGED <<source, given, settings>>

(* load_settings on the file that was written, or with its variables       *)
(* exported.                                                               *)
LoadSettings ==
    /\ phase = "migrated"
    /\ \E environment \in Environments, overrides \in Overrides :
         LET env    == ReadEnvironment(Over(Exported(preview.lines), environment))
             passed == TreeOf(overrides)
         IN  /\ given' = [environment |-> environment, overrides |-> overrides]
             /\ settings' = ApplyEnvironmentDefaults(Merged(preview.tree, env, passed),
                                                     {preview.tree, env, passed})
    /\ phase' = "loaded"
    /\ UNCHANGED <<source, preview, actions>>

(* The process ends; the next one has an environment of its own. *)
EndProcess ==
    /\ phase = "loaded"
    /\ given' = Ungiven /\ settings' = << >>
    /\ phase' = "migrated"
    /\ UNCHANGED <<source, preview, actions>>

ConfigNext == MigrateLegacyConfig \/ LoadSettings \/ EndProcess

ConfigSpec == ConfigInit /\ [][ConfigNext]_configVars

-----------------------------------------------------------------------------
(* What the legacy file says of a setting: of the two places in a YAML     *)
(* file the one at the top, also when only its section is there; of the    *)
(* lines of an env file the last one, under either name.                   *)
Sections(leaves) == {p[1] : p \in DOMAIN leaves}

InFile(p) ==
    LET lines == {j \in 1 .. Len(source.lines) :
                    source.lines[j].path = p /\ IsOurs(source.lines[j])}
    IN  CASE p \in DOMAIN source.top -> {source.top[p]}
          [] p \in DOMAIN source.root /\ p[1] \notin Sections(source.top) -> {source.root[p]}
          [] lines # {} -> {source.lines[CHOOSE j \in lines : \A k \in lines : k <= j].value}
          [] OTHER -> {}

Kept(p) ==
    IF p \in SecretPaths THEN {}
    ELSE {IF p \in PathSettings THEN Rewritten(v) ELSE v : v \in InFile(p)}

Explicit(p) ==
    CASE p \in DOMAIN given.overrides   -> {given.overrides[p]}
      [] p \in DOMAIN given.environment \ DOMAIN given.overrides -> {given.environment[p]}
      [] OTHER                          -> Kept(p)

Meant(p) == IF Explicit(p) # {} THEN CHOOSE v \in Explicit(p) : TRUE
            ELSE Defaults[p]

InProduction == Meant(<<"application", "environment">>) = "production"

Expected(p) ==
    IF p \in DebugPaths /\ InProduction /\ Explicit(p) = {} THEN "False" ELSE Meant(p)

(* However the settings are nested and in whichever of the sources they    *)
(* are, each has the value of the last source that mentions it: defaults,  *)
(* migrated file, environment, overrides, and in production no debug       *)
(* output that nobody asked for; a secret of the legacy file is in none.   *)
LaterSourcesWin ==
    phase = "loaded" =>
      settings = TreeOf([p \in Paths |-> Expected(p)])

(* Nothing is left to migrate in what a migration writes: no legacy root,  *)
(* name or path and no secret, so that to migrate it again changes and     *)
(* reports nothing; and every secret that was taken out is reported (one   *)
(* without a value goes unreported).                                       *)
NothingLeftToMigrate ==
    phase # "legacy" =>
      /\ MigrateYaml(preview.tree) = preview.tree /\ YamlActions(preview.tree) = {}
      /\ MigrateEnv(preview.lines) = preview.lines /\ EnvActions(preview.lines) = {}
      /\ \A p \in SecretPaths :
           /\ ~Mentions(preview.tree, p)
           /\ InFile(p) \ {None} # {} => Report("remove_secret", p) \in actions
=============================================================================
