------------------------------- MODULE Imports -------------------------------
(***************************************************************************)
(* Modules that import each other (sunder.c: load_module, lookup_module;   *)
(* resolve.c: resolve_import_file, merge_symbol_table, and the tables that *)
(* resolve() fills for a module).                                          *)
(*                                                                         *)
(* The program is the environment's: what a module imports, which          *)
(* namespace it has and what it declares is chosen when it is loaded.  An  *)
(* import names a file or the directory `Dir`, whose files are variants of *)
(* one module for different platforms, in the order of their names.  Files *)
(* of a directory that are no modules or are tests are skipped by the code *)
(* and left out here.                                                      *)
(*                                                                         *)
(* A table of symbols is a set of <<path, symbol>>: path <<x>> for x in    *)
(* the table, <<n, x>> for x in its namespace n.  A symbol is known by the *)
(* module and the name that declare it, as by its address in the code.     *)
(***************************************************************************)
EXTENDS Naturals, Sequences

CONSTANTS
    Mods, Main,     \* the source files, and the one given to the compiler
    Dir,            \* a directory that can be imported
    Directory,      \* the files in it
    Names,          \* the names that modules declare
    Namespaces,     \* the namespaces that modules may declare
    MaxImports,     \* bound: import statements of the program
    Tags,           \* what a file name in Dir says of the platform
    AtCwd,          \* whether the import's path leads to Dir from the
                    \* directory in which the compiler runs
    Dotted          \* whether the import's path has a dot in it

ASSUME MainAssumption == Main \in Mods
ASSUME DirAssumption == Dir \notin Mods
ASSUME DirectoryAssumption == Directory \in Seq(Mods)
ASSUME MaxImportsAssumption == MaxImports \in Nat
ASSUME TagsAssumption == Tags \subseteq {"none", "target", "other"}
ASSUME EnvironmentAssumption == AtCwd \subseteq BOOLEAN /\ Dotted \subseteq BOOLEAN

VARIABLES
    imports, namespace, declares,   \* the program, as far as it is loaded
    tag, at_cwd, dotted,            \* the file system
    phase,          \* "load", "loaded", or why the compiler stopped
    spare,          \* import statements that the program may still have
    modules,        \* context()->modules
    loaded,         \* history: the modules with module.loaded, in that order
    acts,           \* the activations of load_module: the import statements
                    \* that are left, and the files that are left of a
                    \* directory
    symbols,        \* module.symbols
    global,         \* context()->global_symbol_table
    merged          \* history: the modules merged into each module

program == <<imports, namespace, declares>>
files == <<tag, at_cwd, dotted>>
vars == <<program, files, phase, spare, modules, loaded, acts, symbols, global, merged>>

Elems(s) == {s[i] : i \in 1..Len(s)}
UpTo(S, n) == UNION {[1..k -> S] : k \in 0..n}
Top == acts[Len(acts)]
NoNamespace == ""
Space == <<"namespace">>

\* Two symbols of the same name in one table, which symbol_table_insert refuses.
Clash(table) == \E e, f \in table : e[1] = f[1] /\ e[2] # f[2]

\* Where a module's declarations go.
Own(m) ==
    {<<IF namespace[m] = NoNamespace THEN <<x>> ELSE <<namespace[m], x>>, <<m, x>>>> :
        x \in declares[m]}

\* module.exports: the declarations or, in a module with a namespace, the
\* namespace with the module's own table behind it, including what imports
\* have put there.
Exports(m) ==
    IF namespace[m] = NoNamespace THEN Own(m)
    ELSE {e \in symbols[m] : e[1][1] = namespace[m]}

\* Mutant of Merge: a namespace that exists already is taken as it is.
MergeNewOnly(self, othr) ==
    self \cup {e \in othr : \A f \in self : e[1][1] # f[1][1]}

\* merge_symbol_table, when it is not refused: namespaces are merged, and a
\* symbol that an earlier import has added is left.
Merge(self, othr) == self \cup othr

\* Mutant of Collision: any symbol of the same name is refused.
CollisionByName(self, othr) ==
    \E e \in self, f \in othr : e[1] = f[1] /\ (e[2] # f[2] \/ e[2] # Space)

\* merge_symbol_table: a name stands for different symbols.
Collision(self, othr) == Clash(self \cup othr)

-----------------------------------------------------------------------------
Init ==
    /\ imports = [m \in Mods |-> <<>>]
    /\ namespace = [m \in Mods |-> NoNamespace]
    /\ declares = [m \in Mods |-> {}]
    /\ tag \in [Elems(Directory) -> Tags]
    /\ \A f, g \in Elems(Directory) : tag[f] = "none" /\ tag[g] = "none" => f = g
    /\ at_cwd \in AtCwd
    /\ dotted \in Dotted
    /\ phase = "load"
    /\ spare = MaxImports
    /\ modules = {}
    /\ loaded = <<>>
    /\ acts = <<>>
    /\ symbols = [m \in Mods |-> {}]
    /\ global = {}
    /\ merged = [m \in Mods |-> {}]

\* load_module up to the imports in resolve(): the namespace exists already.
Load(m) ==
    /\ \E i \in UpTo((Mods \ {Main}) \cup {Dir}, spare),
          n \in Namespaces \cup {NoNamespace},
          d \in {{}} \cup {{x} : x \in Names} :
         /\ imports' = [imports EXCEPT ![m] = i]
         /\ namespace' = [namespace EXCEPT ![m] = n]
         /\ declares' = [declares EXCEPT ![m] = d]
         /\ spare' = spare - Len(i)
         /\ acts' = Append(acts, [mod |-> m, rest |-> i, files |-> <<>>])
         /\ symbols' = [symbols EXCEPT ![m] =
                           IF n = NoNamespace THEN {} ELSE {<<<<n>>, Space>>}]
    /\ modules' = modules \cup {m}
    /\ UNCHANGED <<files, phase, loaded, global, merged>>

LoadMain == phase = "load" /\ modules = {} /\ Load(Main)

\* Which of its files an import of Dir loads.  The platform is looked for
\* after the first dot of the path; whether there is a file for the platform
\* is looked up under the import's path as it is written.
Special(f) == tag[f] # "none" \/ dotted
MatchesTarget(f) == tag[f] = "target" /\ ~dotted
PlatformFileExists == at_cwd /\ \E g \in Elems(Directory) : tag[g] = "target"
\* Mutant of Accepted: files for the platform replace no others.
AcceptedAll(f) == IF Special(f) THEN MatchesTarget(f) ELSE TRUE

\* The file is neither skipped for its own name nor for another file.
Accepted(f) == IF Special(f) THEN MatchesTarget(f) ELSE ~PlatformFileExists

Resolving == phase = "load" /\ acts # <<>>

\* resolve_import_file for a directory: its files, one after the other.
ImportDirectory ==
    /\ Resolving
    /\ Top.files = <<>> /\ Top.rest # <<>>
    /\ Head(Top.rest) = Dir
    /\ acts' = [acts EXCEPT ![Len(acts)].files = Directory,
                            ![Len(acts)].rest = Tail(@)]
    /\ UNCHANGED <<program, files, phase, spare, modules, loaded, symbols, global, merged>>

\* A file of the directory is not imported.
SkipFile ==
    /\ Resolving
    /\ Top.files # <<>>
    /\ ~Accepted(Head(Top.files))
    /\ acts' = [acts EXCEPT ![Len(acts)].files = Tail(@)]
    /\ UNCHANGED <<program, files, phase, spare, modules, loaded, symbols, global, merged>>

\* resolve_import_file for a file, of a directory or of a statement.
Importing ==
    /\ Resolving
    /\ IF Top.files # <<>> THEN Accepted(Head(Top.files))
       ELSE Top.rest # <<>> /\ Head(Top.rest) # Dir
Import == IF Top.files # <<>> THEN Head(Top.files) ELSE Head(Top.rest)
Advance ==
    IF Top.files # <<>> THEN [acts EXCEPT ![Len(acts)].files = Tail(@)]
    ELSE [acts EXCEPT ![Len(acts)].rest = Tail(@)]

\* Mutant of ImportNew: lookup_module finds only modules that are loaded.
ImportUnfinished ==
    /\ Importing
    /\ Import \in Mods \ Elems(loaded)
    /\ Load(Import)

\* lookup_module does not find the module: it is loaded first.
ImportNew ==
    /\ Importing
    /\ Import \in Mods \ modules
    /\ Load(Import)

\* Mutant of Loaded: a module that is being loaded will do.
LoadedOrLoading == modules

\* The modules with module.loaded.
Loaded == Elems(loaded)

\* The module is known, but its loading has led here.
ImportCircular ==
    /\ Importing
    /\ Import \in modules \ Loaded
    /\ phase' = "circular"
    /\ UNCHANGED <<program, files, spare, modules, loaded, acts, symbols, global, merged>>

\* The module is loaded, now or before: its exports are merged.
ImportLoaded ==
    /\ Importing
    /\ Import \in Loaded
    /\ IF Collision(symbols[Top.mod], Exports(Import))
         THEN /\ phase' = "redeclared"
              /\ UNCHANGED <<acts, symbols, merged>>
         ELSE /\ symbols' = [symbols EXCEPT ![Top.mod] = Merge(@, Exports(Import))]
              /\ merged' = [merged EXCEPT ![Top.mod] = @ \cup {Import}]
              /\ acts' = Advance
              /\ UNCHANGED phase
    /\ UNCHANGED <<program, files, spare, modules, loaded, global>>

\* What m's declarations add to the global symbol table.
Globals(m) == IF namespace[m] = NoNamespace THEN Own(m) ELSE {}

\* All imports are merged: the declarations are resolved, and load_module
\* returns.
Declare ==
    /\ Resolving
    /\ Top.files = <<>> /\ Top.rest = <<>>
    /\ LET m == Top.mod IN
         IF Clash(symbols[m] \cup Own(m)) \/ Clash(global \cup Globals(m))
           THEN /\ phase' = "redeclared"
                /\ UNCHANGED <<loaded, acts, symbols, global>>
           ELSE /\ symbols' = [symbols EXCEPT ![m] = @ \cup Own(m)]
                /\ global' = global \cup Globals(m)
                /\ loaded' = Append(loaded, m)
                /\ acts' = SubSeq(acts, 1, Len(acts) - 1)
                /\ phase' = IF m = Main THEN "loaded" ELSE phase
    /\ UNCHANGED <<program, files, spare, modules, merged>>

Stopped == phase # "load" /\ UNCHANGED vars

Next ==
    \/ LoadMain \/ ImportDirectory \/ SkipFile \/ ImportNew
    \/ ImportCircular \/ ImportLoaded \/ Declare \/ Stopped

Spec == Init /\ [][Next]_vars

-----------------------------------------------------------------------------
\* The types of the variables; a module is known from when load_module is
\* called for it, and being loaded for as long as it is on the stack.
Paths == Seq(Names \cup Namespaces)
ImportsTypeOK ==
    /\ phase \in {"load", "loaded", "circular", "redeclared"}
    /\ spare \in 0..MaxImports
    /\ modules \subseteq Mods
    /\ \A m \in Mods :
         /\ imports[m] \in Seq(Mods \cup {Dir})
         /\ \A e \in symbols[m] : e[1] \in Paths
    /\ modules = Loaded \cup {acts[i].mod : i \in 1..Len(acts)}
    /\ \A i, j \in 1..Len(acts) : acts[i].mod = acts[j].mod => i = j

\* The files that an import statement leads to.
Reaches(m) ==
    (Elems(imports[m]) \cap Mods)
        \cup IF Dir \in Elems(imports[m]) THEN {f \in Elems(Directory) : Accepted(f)} ELSE {}

\* Each module is loaded once, and after the modules that it imports: no
\* module ever sees the table of one that is not finished, whatever the graph
\* of imports.
ImportsFirst ==
    \A i \in 1..Len(loaded) :
        /\ \A j \in 1..i - 1 : loaded[i] # loaded[j]
        /\ Reaches(loaded[i]) \subseteq {loaded[j] : j \in 1..i - 1}
        /\ merged[loaded[i]] = Reaches(loaded[i])

\* Importing one module along several ways is never refused.  Where a
\* redeclaration is reported there are two symbols of the same name, both in
\* reach of the module that is being resolved or both without a namespace; a
\* namespace and a declaration of the same name are two symbols as well.
Reported == Top.mod
InReach(m) ==
    Own(m) \cup (UNION {Exports(p) : p \in Loaded \cap Reaches(m)})
        \cup {<<<<n>>, Space>> : n \in {namespace[m]} \ {NoNamespace}}
RedeclaredIsReal ==
    phase = "redeclared" =>
        \/ Clash(InReach(Reported))
        \/ \E m \in Loaded :
             namespace[m] = NoNamespace /\ namespace[Reported] = NoNamespace
             /\ declares[m] \cap declares[Reported] # {}

\* A loaded module sees its own declarations and those of the modules it
\* imports, also where namespaces are shared.
SeesImports ==
    \A m \in Loaded : \A p \in Reaches(m) \cup {m} : Own(p) \subseteq symbols[m]

\* m sees what p declares only if it imports p, or gets p's namespace from a
\* module of the same namespace that it imports: imports are not passed on.
Sharing(m, p) ==
    \E q \in Reaches(m) : namespace[q] = namespace[p] /\ namespace[q] # NoNamespace
SeesNoMore ==
    \A m \in Mods : \A e \in symbols[m] :
        e[2] # Space =>
            LET p == e[2][1] IN p = m \/ p \in Reaches(m) \/ Sharing(m, p)

\* A module sees what it declares and imports, and nothing else.
SeesItsImports == SeesImports /\ SeesNoMore

\* The comment in resolve_import_file: of the variants of a module in a
\* directory, those for the platform are imported, and the one for all others
\* if there is none for the platform.
ForPlatform(f) ==
    \/ tag[f] = "target"
    \/ tag[f] = "none" /\ \A g \in Elems(Directory) : tag[g] # "target"
PlatformFiles ==
    \A m \in Loaded : imports[m] = <<Dir>> =>
        merged[m] = {f \in Elems(Directory) : ForPlatform(f)}
=============================================================================
