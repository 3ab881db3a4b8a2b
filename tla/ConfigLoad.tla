------------------------------ MODULE ConfigLoad ------------------------------
(***************************************************************************)
(* Which configuration files qlstatus loads and what it takes from them:   *)
(* the cascade of main() (src/src/main.c) and load_config_file (config.c). *)
(***************************************************************************)
EXTENDS ConfigLine

CONSTANTS
  Keys,            \* the keywords of the program's options
  Matches(_, _),   \* whether a setting matches the pattern of a keyword
  ArgFiles,        \* the contents of the file named by --config, or NotGiven
  UserFiles,       \* the same for the file in the user's home
  SystemFiles,     \* and for the file in /etc
  Absent,          \* a file that cannot be opened
  Unreadable,      \* one that can be opened but not read: a directory
  NotGiven         \* no --config option

IsFile(f) == f = Absent \/ f = Unreadable \/ f \in Seq(Seq(STRING))

ASSUME FilesAssumption ==
  /\ \A f \in ArgFiles : f = NotGiven \/ IsFile(f)
  /\ \A f \in UserFiles \cup SystemFiles : IsFile(f)

ASSUME KeysAssumption == NULL \notin Keys

Default == <<"default">>

VARIABLES
  arg,     \* the file of --config: its lines, Absent, Unreadable or NotGiven
  user,    \* the user's file
  system,  \* the system's file
  source,  \* the file that is being loaded, or "done"
  nline,   \* the number of lines read from it
  value,   \* the setting of each option
  origin,  \* the file that it comes from
  loaded,  \* the files that were opened
  status   \* "loading", "running" or "failure"

vars == <<arg, user, system, source, nline, value, origin, loaded, status>>
files == <<arg, user, system>>

Sources == {"arg", "user", "system"}

Lines(f) == CASE f = "arg" -> arg [] f = "user" -> user [] f = "system" -> system

Init ==
  /\ arg \in ArgFiles
  /\ user \in UserFiles
  /\ system \in SystemFiles
  /\ source = IF arg = NotGiven THEN "user" ELSE "arg"
  /\ nline = 0
  /\ value = [k \in Keys |-> Default]
  /\ origin = [k \in Keys |-> "default"]
  /\ loaded = {}
  /\ status = "loading"

NextFileGoesOn(f) ==  \* a mutation: the line counter is not reset
  /\ source' = f
  /\ UNCHANGED <<nline, files, value, origin>>

NextFile(f) ==
  /\ source' = f
  /\ nline' = 0
  /\ UNCHANGED <<files, value, origin>>

\* load_config_file returns -1, or there is no home directory.  Only the file
\* of --config is required.
CannotOpen ==
  /\ status = "loading"
  /\ source # "done"
  /\ Lines(source) = Absent
  /\ CASE source = "arg"    -> status' = "failure" /\ UNCHANGED <<source, nline, files, value, origin>>
       [] source = "user"   -> UNCHANGED status /\ NextFile("system")
       [] source = "system" -> UNCHANGED status /\ NextFile("done")
  /\ UNCHANGED loaded

\* getline fails: the end of the program, whatever file it is.
CannotRead ==
  /\ status = "loading"
  /\ source # "done"
  /\ Lines(source) = Unreadable
  /\ status' = "failure"
  /\ UNCHANGED <<files, source, nline, value, origin, loaded>>

\* Where main() goes after a file was loaded: the condition is an else-if, so
\* the user's file follows the file of --config.
AfterLoading(f) == IF f = "arg" THEN "user" ELSE "done"

EndOfFile ==
  /\ status = "loading"
  /\ source # "done"
  /\ Lines(source) \notin {Absent, Unreadable}
  /\ nline = Len(Lines(source))
  /\ loaded' = loaded \cup {source}
  /\ NextFile(AfterLoading(source))
  /\ UNCHANGED status

KeepOption(o) == UNCHANGED <<value, origin>>  \* a mutation: the value is lost

\* check_global_opts and check_module_opts: set the option of that keyword.
SetOption(o) ==
  /\ value' = [value EXCEPT ![o.key] = o.value]
  /\ origin' = [origin EXCEPT ![o.key] = source]

\* parse_config_line on the next line: skipped, or an option with a setting of
\* the right form, or the end of the program.
ReadLine ==
  /\ status = "loading"
  /\ source # "done"
  /\ Lines(source) \notin {Absent, Unreadable}
  /\ nline < Len(Lines(source))
  /\ nline' = nline + 1
  /\ LET line == Lines(source)[nline + 1] IN
       IF IsSkipped(line) THEN UNCHANGED <<value, origin, status>>
       ELSE \E o \in Assignments(line) :
              IF /\ o.key # NULL /\ o.value # NULL
                 /\ o.key \in Keys /\ Matches(o.key, o.value)
              THEN SetOption(o) /\ UNCHANGED status
              ELSE status' = "failure" /\ UNCHANGED <<value, origin>>
  /\ UNCHANGED <<files, source, loaded>>

\* The modules are enabled and the main loop starts.
Run ==
  /\ status = "loading"
  /\ source = "done"
  /\ status' = "running"
  /\ UNCHANGED <<files, source, nline, value, origin, loaded>>

Ended ==
  /\ status # "loading"
  /\ UNCHANGED vars

Next == CannotOpen \/ CannotRead \/ EndOfFile \/ ReadLine \/ Run \/ Ended

Spec == Init /\ [][Next]_vars

-----------------------------------------------------------------------------
(* Properties.                                                             *)

\* Type invariant of the configuration.
TypeOK ==
  /\ source \in Sources \cup {"done"}
  /\ source # "done" /\ Lines(source) \notin {Absent, Unreadable} =>
       nline \in 0..Len(Lines(source))
  /\ nline \in Nat
  /\ DOMAIN value = Keys
  /\ origin \in [Keys -> Sources \cup {"default"}]
  /\ loaded \subseteq Sources
  /\ status \in {"loading", "running", "failure"}

IsSetting(line) ==
  /\ HasEqual(line)
  /\ Meaning(line).value # NULL
  /\ Meaning(line).key \in Keys
  /\ Matches(Meaning(line).key, Meaning(line).value)

\* The lines of file f that set option k, among some of its lines and of all.
SettingAmong(ns, f, k) ==
  {n \in ns : IsSetting(Lines(f)[n]) /\ Meaning(Lines(f)[n]).key = k}
Setting(f, k) == SettingAmong(DOMAIN Lines(f), f, k)

\* What a line without a '=' sets depends on what lies behind it in memory, see
\* Beyond.
IsWellFormed(line) == HasEqual(line) \/ MeansNothing(line)

\* The last of the files fs in the order in which they are loaded.
Latest(fs) == CHOOSE f \in fs :
  /\ f = "arg" => fs = {"arg"}
  /\ f = "user" => "system" \notin fs

\* What the program runs with is what the manual says of the files it loaded:
\* each option has the setting of the last line that sets it, in the last of
\* the files that do, or its default.
RunsAsWritten ==
  /\ status = "running"
  /\ \A f \in loaded : \A n \in DOMAIN Lines(f) : IsWellFormed(Lines(f)[n])
  => \A k \in Keys :
       LET setBy == {f \in loaded : Setting(f, k) # {}} IN
       IF setBy = {} THEN value[k] = Default
       ELSE LET f == Latest(setBy)
            IN  /\ origin[k] = f
                /\ value[k] = Meaning(Lines(f)[Max(Setting(f, k))]).value

\* The program refuses to start only for a file of --config that is not there,
\* one that it cannot read, or a line that is neither blank, nor a comment, nor a valid setting.
FailureIsDeserved ==
  status = "failure" =>
    \/ source = "arg" /\ arg = Absent
    \/ Lines(source) = Unreadable
    \/ LET line == Lines(source)[nline]
       IN  ~ MeansNothing(line) /\ ~ IsSetting(line)

\* manual.1: the user-configuration file is (1) the one "specified through
\* --config option" or (2) the one in the home directory, in this order, and "if
\* user-configuration file is not found" the system's file is looked for.  So
\* with --config the system's file sets nothing, and the user's nothing that the
\* file of --config sets.
ExplicitConfigWins ==
  arg # NotGiven =>
    \A k \in Keys :
      /\ origin[k] # "system"
      /\ status = "running" /\ Setting("arg", k) # {} => origin[k] = "arg"

-----------------------------------------------------------------------------
(* The inductive invariant behind the theorems of ConfigLoadProofs.        *)

FilesAreGiven ==
  /\ source = "arg" => IsFile(arg)
  /\ IsFile(user) /\ IsFile(system)

\* The system's file is the last one, and tried only without one in the home
\* directory; a file of --config does not prevent it.
SystemIsLast == source = "system" => user = Absent

\* No file is loaded twice, nor the system's beside the user's; only that of
\* --config is followed by another.
FilesInOrder ==
  /\ \A f \in loaded : Lines(f) \in Seq(Seq(STRING))
  /\ source # "done" =>
       /\ source \notin loaded
       /\ loaded \subseteq {"arg"}
       /\ Lines(source) \in {Absent, Unreadable} => nline = 0
  /\ ~ ({"user", "system"} \subseteq loaded)
  /\ status = "running" => source = "done"

\* The lines of file f that were read so far.
Read(f) ==
  IF f \in loaded THEN DOMAIN Lines(f) ELSE IF f = source THEN 1..nline ELSE {}

SettingsRead(f, k) == SettingAmong(Read(f), f, k)

\* Option k has the setting of the last line read so far that sets it.
LastCounts(k) ==
  \/ /\ \A f \in Sources : SettingsRead(f, k) = {}
     /\ value[k] = Default
  \/ \E f \in Sources : \E n \in SettingsRead(f, k) :
       /\ origin[k] = f
       /\ value[k] = Meaning(Lines(f)[n]).value
       /\ \A m \in SettingsRead(f, k) : m <= n
       /\ \A g \in Sources \ {f} : SettingsRead(g, k) # {} => g = "arg"

ReadIsWellFormed == \A f \in Sources : \A n \in Read(f) : IsWellFormed(Lines(f)[n])

LastSettingCounts ==
  status # "failure" /\ ReadIsWellFormed => \A k \in Keys : LastCounts(k)

\* The order of the files, and what they have set so far.
CascadeInv == TypeOK /\ FilesAreGiven /\ SystemIsLast
IInv == CascadeInv /\ FilesInOrder /\ LastSettingCounts /\ FailureIsDeserved

=============================================================================
