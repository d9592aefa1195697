------------------------------- MODULE Generator -------------------------------
(***************************************************************************)
(* The reform command (package reform/) over the directory of a package:   *)
(* it parses every source file, and for each that declares structs with a  *)
(* magic comment it writes a generated file next to it.  It is run over a  *)
(* directory, by go generate for one file, or both; it may be killed, a    *)
(* write may fail, and the programmer edits the sources at any time, also  *)
(* while it runs.                                                          *)
(*                                                                         *)
(* A source is the set of structs it declares (an edited struct is another *)
(* element of Struct), or is refused by the parser of structs, or broken   *)
(* (no Go after its imports), lost (truncated), or gone.  A generated file *)
(* is absent, or has the parts written so far: "empty" has no complete     *)
(* package clause and imports, "open" has some structs, "whole" also the   *)
(* init function; "torn" ends in the middle of a struct.                   *)
(***************************************************************************)
EXTENDS FiniteSets, Naturals

CONSTANTS
    File,      \* source files of the package
    Struct,    \* struct definitions with a magic comment
    NoFile,    \* go generate has not started the command
    MaxEdits,  \* bound: edits of a source
    MaxRuns    \* bound: runs of the command

ASSUME GeneratorAssumption == NoFile \notin File /\ MaxEdits \in Nat /\ MaxRuns \in Nat

VARIABLES
    source,    \* the source files: [state, structs, tidy]
    generated, \* their generated files: [part, structs, tidy]
    pc,        \* where the command is; "idle" if none runs
    phase,     \* "args": the loop over a directory; "env": the file of go generate
    gofmtF,    \* the flag -gofmt
    gofile,    \* GOFILE, or NoFile
    todo,      \* files of the package the loop has still to process
    cur,       \* the file being processed: [kind, file]
    buffer,    \* what goformat has read
    exit,      \* how the last run ended
    unparsed,  \* history: sources this run has still to parse
    found,     \* history: the structs it found in the others
    made,      \* history: the structs of the generated files it has created anew
    text,      \* history: what the programmer last wrote into a source
    harmed,    \* history: sources saved while they are formatted, or left truncated
    edits,     \* history: number of edits, up to MaxEdits
    runs,      \* history: number of runs, up to MaxRuns
    io,        \* history: a read or write of this run failed
    sound      \* history: this run started on a sound directory, unedited since

files == <<source, generated>>
tool  == <<phase, gofmtF, gofile, buffer>>
hist  == <<unparsed, found, made, text, harmed, edits, runs, io, sound>>
vars  == <<files, pc, tool, todo, cur, exit, hist>>

Sources   == [state : {"good", "refused", "broken", "lost", "gone"},
              structs : SUBSET Struct, tidy : BOOLEAN]
Generated == [part : {"absent", "empty", "open", "torn", "whole"},
              structs : SUBSET Struct, tidy : BOOLEAN]
Items     == [kind : {"source", "generated"}, file : File]

Text(s) == [state |-> s.state, structs |-> s.structs]
Written(p, s) == [part |-> p, structs |-> s, tidy |-> FALSE]

\* Files that are Go to the parser.
IsGo(kind, content) ==
    IF kind = "source" THEN content.state \in {"good", "refused"}
    ELSE content.part \in {"open", "whole"}
Content(kind, f) == IF kind = "source" THEN source[f] ELSE generated[f]
Parses(kind, f)  == IsGo(kind, Content(kind, f))

\* goformat has read the source f and is to write it; it has truncated it.
Formatting(f) ==
    /\ pc \in {"format", "rewrite"} /\ cur = [kind |-> "source", file |-> f]
    /\ IsGo("source", buffer) /\ ~buffer.tidy
Rewriting(f) == pc = "rewrite" /\ cur = [kind |-> "source", file |-> f]
Rewritten == {f \in File : Rewriting(f)}
Exists(kind, f) ==
    IF kind = "source" THEN source[f].state # "gone" ELSE generated[f].part # "absent"

\* pack.GoFiles: generated files of earlier runs are files of the package too.
GoFiles == {i \in Items : Exists(i.kind, i.file)}

\* build.ImportDir reads package clauses and imports only.
ImportDir ==
    /\ GoFiles # {}
    /\ \A f \in File : generated[f].part # "empty" /\ source[f].state # "lost"

\* A directory over which a run ought to succeed: what does not parse is
\* written anew before it is read.
Sound(args, env) ==
    /\ args => GoFiles # {}
    /\ env # NoFile => source[env].state = "good"
    /\ \A f \in File :
          /\ source[f].state \in {"good", "gone"}
          /\ args => generated[f].part # "empty"
          /\ generated[f].part \in {"empty", "torn"} =>
                source[f].state = "good" /\ source[f].structs # {} /\ (args \/ env = f)

-----------------------------------------------------------------------------
\* A struct is declared once in a package; what does not parse declares none,
\* and is not formatted.  A programmer does not leave a file empty.
Legal(src) ==
    /\ \A f \in File :
          /\ src[f].state # "good" => src[f].structs = {}
          /\ src[f].tidy => src[f].state \in {"good", "refused"}
    /\ \A f, g \in File : f # g => src[f].structs \cap src[g].structs = {}

Init ==
    /\ source \in [File -> {s \in Sources : s.state # "lost"}] /\ Legal(source)
    /\ generated = [f \in File |-> Written("absent", {})]
    /\ pc = "idle" /\ phase = "args" /\ gofmtF = TRUE /\ gofile = NoFile
    /\ todo = {} /\ exit = "none"
    /\ \E i \in Items : cur = i
    /\ buffer = [state |-> "good", structs |-> {}, tidy |-> TRUE]
    /\ unparsed = {} /\ found = [f \in File |-> {}] /\ made = [f \in File |-> {}]
    /\ text = [f \in File |-> Text(source[f])] /\ harmed = {}
    /\ edits = 0 /\ runs = 0 /\ io = FALSE /\ sound = FALSE

\* The programmer edits, deletes or moves sources.
Edit ==
    /\ edits < MaxEdits /\ edits' = edits + 1
    /\ \E f \in File, s \in Sources :
          /\ s.state # "lost"
          /\ source' = [source EXCEPT ![f] = s]
          /\ text' = [text EXCEPT ![f] = Text(s)]
          /\ harmed' = IF Formatting(f) THEN harmed \cup {f} ELSE harmed \ {f}
    /\ Legal(source')
    /\ sound' = FALSE
    /\ UNCHANGED <<generated, pc, tool, todo, cur, exit, unparsed, found, made, runs, io>>

\* The run ends with an error; failed says whether input or output was to blame.
Fatalf(failed) ==
    /\ pc' = "idle" /\ exit' = "fatal" /\ io' = (io \/ failed)

\* main: the arguments come first, the environment of go generate second.
Start ==
    /\ pc = "idle" /\ runs < MaxRuns /\ runs' = runs + 1
    /\ \E args, flag \in BOOLEAN, env \in File \cup {NoFile} :
          /\ args \/ env # NoFile
          /\ env # NoFile => source[env].state # "gone"
          /\ phase' = IF args THEN "args" ELSE "env"
          /\ gofmtF' = flag /\ gofile' = env
          /\ todo' = IF args THEN GoFiles ELSE {}
          /\ unparsed' = {f \in File : (args /\ Exists("source", f)) \/ f = env}
          /\ sound' = Sound(args, env)
          /\ IF args /\ ~ImportDir THEN pc' = "idle" /\ exit' = "fatal"
                                   ELSE pc' = "file" /\ exit' = "none"
    /\ found' = [f \in File |-> {}] /\ made' = [f \in File |-> {}] /\ io' = FALSE
    /\ UNCHANGED <<files, cur, buffer, text, harmed, edits>>

\* A file has been processed: goformat comes next, or the next file, or gofmt.
AfterFile(rest) ==
    /\ todo' = rest
    /\ pc' = CASE ~gofmtF -> "goformat" [] gofmtF /\ rest # {} -> "file" [] OTHER -> "gofmt"

\* Mutant: the files are taken in any order.
NextFileAnyOrder(i) ==
    /\ pc = "file"
    /\ \/ phase = "args" /\ i \in todo
       \/ phase = "env" /\ i = [kind |-> "source", file |-> gofile]

\* The file the command turns to: the loop takes GoFiles in the order of their
\* names, in which x.go comes before x_reform.go.
NextFile(i) ==
    /\ pc = "file"
    /\ \/ /\ phase = "args" /\ i \in todo
          /\ i.kind = "generated" => [kind |-> "source", file |-> i.file] \notin todo
       \/ phase = "env" /\ i = [kind |-> "source", file |-> gofile]

\* Mutant: the file is created before the source is parsed.
ParseFileCreating(i) ==
    /\ NextFile(i) /\ i.kind = "source" /\ ~Parses(i.kind, i.file)
    /\ Fatalf(FALSE) /\ cur' = i
    /\ generated' = [generated EXCEPT ![i.file] = Written("empty", {})]
    /\ made' = [made EXCEPT ![i.file] = Struct]
    /\ UNCHANGED <<source, tool, todo, unparsed, found, text, harmed, edits, runs, sound>>

\* parse.File succeeds.  A file without structs is left alone, and so is an
\* older file generated from it; generated files have no magic comments.
ParseFile(i) ==
    /\ NextFile(i) /\ Exists(i.kind, i.file) /\ Parses(i.kind, i.file)
    /\ i.kind = "source" => source[i.file].state = "good"
    /\ cur' = i
    /\ IF i.kind = "source"
       THEN /\ unparsed' = unparsed \ {i.file}
            /\ found' = [found EXCEPT ![i.file] = source[i.file].structs]
       ELSE UNCHANGED <<unparsed, found>>
    /\ IF i.kind = "source" /\ source[i.file].structs # {}
       THEN pc' = "create" /\ todo' = todo \ {i}
       ELSE AfterFile(todo \ {i})
    /\ UNCHANGED <<files, tool, exit, made, text, harmed, edits, runs, io, sound>>

\* parse.File fails: main gives up, leaving the files after this one alone.
ParseFails(i) ==
    /\ NextFile(i)
    /\ \/ ~Exists(i.kind, i.file) /\ Fatalf(FALSE)
       \/ Exists(i.kind, i.file) /\ ~Parses(i.kind, i.file) /\ Fatalf(FALSE)
       \/ i.kind = "source" /\ source[i.file].state = "refused" /\ Fatalf(FALSE)
       \/ Fatalf(TRUE)
    /\ cur' = i
    /\ UNCHANGED <<files, tool, todo, unparsed, found, made, text, harmed, edits, runs, sound>>

-----------------------------------------------------------------------------
\* processFile writes the generated file in place.

Out == generated[cur.file]
Put(g) == generated' = [generated EXCEPT ![cur.file] = g]

\* Mutant: the file is written over, not truncated.
CreateKeeping ==
    /\ pc = "create" /\ pc' = "write"
    /\ Put(Written(IF Out.part = "absent" THEN "empty" ELSE "torn", {}))
    /\ made' = [made EXCEPT ![cur.file] = found[cur.file]]
    /\ UNCHANGED <<source, tool, todo, cur, exit, unparsed, found, text, harmed, edits, runs, io, sound>>

\* os.Create truncates what was there.
Create ==
    /\ pc = "create" /\ pc' = "write"
    /\ Put(Written("empty", {}))
    /\ made' = [made EXCEPT ![cur.file] = found[cur.file]]
    /\ UNCHANGED <<source, tool, todo, cur, exit, unparsed, found, text, harmed, edits, runs, io, sound>>

WriteProlog ==
    /\ pc = "write" /\ Out.part = "empty"
    /\ Put(Written("open", {}))
    /\ UNCHANGED <<source, pc, tool, todo, cur, exit, hist>>

\* structTemplate, once for every struct that was found.
WriteStruct ==
    /\ pc = "write" /\ Out.part = "open"
    /\ \E s \in found[cur.file] \ Out.structs : Put(Written("open", Out.structs \cup {s}))
    /\ UNCHANGED <<source, pc, tool, todo, cur, exit, hist>>

WriteInit ==
    /\ pc = "write" /\ Out.part = "open" /\ Out.structs = found[cur.file]
    /\ Put(Written("whole", Out.structs))
    /\ UNCHANGED <<source, pc, tool, todo, cur, exit, hist>>

Close ==
    /\ pc = "write" /\ Out.part = "whole"
    /\ AfterFile(todo)
    /\ UNCHANGED <<files, tool, cur, exit, hist>>

\* What an interrupted write leaves: what was there, or part of what comes next.
Interrupted ==
    \/ UNCHANGED generated
    \/ pc = "write" /\ Out.part = "open" /\ Put(Written("torn", {}))

\* Mutant: an error of a template is not checked.
WriteFailsUnchecked ==
    /\ pc \in {"create", "write"}
    /\ Interrupted
    /\ AfterFile(todo) /\ UNCHANGED <<source, tool, cur, exit, hist>>

\* os.Create, a write or Close fails; the file stays as it is.
WriteFails ==
    /\ pc \in {"create", "write"}
    /\ Interrupted
    /\ Fatalf(TRUE)
    /\ UNCHANGED <<source, tool, todo, cur, unparsed, found, made, text, harmed, edits, runs, sound>>

-----------------------------------------------------------------------------
\* Formatting

AfterFormat == pc' = IF todo # {} THEN "file" ELSE "gofmt"

\* goformat, without gofmt only, formats the file that was processed: it reads it.
GoformatRead ==
    /\ pc = "goformat" /\ Exists(cur.kind, cur.file)
    /\ pc' = "format"
    /\ buffer' = Content(cur.kind, cur.file)
    /\ UNCHANGED <<files, phase, gofmtF, gofile, todo, cur, exit, hist>>

\* What was read is formatted as it is.
GoformatSame ==
    /\ pc = "format" /\ IsGo(cur.kind, buffer) /\ buffer.tidy
    /\ AfterFormat
    /\ UNCHANGED <<files, tool, todo, cur, exit, hist>>

\* ioutil.WriteFile truncates the file, whatever it has become since it was
\* read, or creates it, and then writes what was read, formatted.
GoformatTruncate ==
    /\ pc = "format" /\ IsGo(cur.kind, buffer) /\ ~buffer.tidy
    /\ pc' = "rewrite"
    /\ IF cur.kind = "source"
       THEN /\ source' = [source EXCEPT ![cur.file] =
                             [state |-> "lost", structs |-> {}, tidy |-> FALSE]]
            /\ UNCHANGED generated
       ELSE Put(Written("empty", {})) /\ UNCHANGED source
    /\ UNCHANGED <<tool, todo, cur, exit, hist>>

\* Mutant: an error of the formatter is not checked.
GoformatUnchecked ==
    /\ pc = "format" /\ cur.kind = "source" /\ ~IsGo(cur.kind, buffer)
    /\ source' = [source EXCEPT ![cur.file] = [state |-> "lost", structs |-> {}, tidy |-> FALSE]]
    /\ AfterFormat
    /\ UNCHANGED <<generated, tool, todo, cur, exit, hist>>

GoformatWrite ==
    /\ pc = "rewrite"
    /\ IF cur.kind = "source"
       THEN /\ source' = [source EXCEPT ![cur.file] = [buffer EXCEPT !.tidy = TRUE]]
            /\ UNCHANGED generated
       ELSE Put([buffer EXCEPT !.tidy = TRUE]) /\ UNCHANGED source
    /\ AfterFormat
    /\ UNCHANGED <<tool, todo, cur, exit, hist>>

\* The file is gone, or no Go any more, or cannot be read or written.
GoformatFails ==
    /\ \/ pc = "goformat" /\ ~Exists(cur.kind, cur.file) /\ Fatalf(FALSE)
       \/ pc = "format" /\ ~IsGo(cur.kind, buffer) /\ Fatalf(FALSE)
       \/ pc \in {"goformat", "format", "rewrite"} /\ Fatalf(TRUE)
    /\ harmed' = harmed \cup Rewritten
    /\ UNCHANGED <<files, tool, todo, cur, unparsed, found, made, text, edits, runs, sound>>

\* The package is done: on to the file of go generate, or to the end.
AfterPackage ==
    IF phase = "args" /\ gofile # NoFile
    THEN phase' = "env" /\ pc' = "file" /\ UNCHANGED exit
    ELSE pc' = "idle" /\ exit' = "ok" /\ UNCHANGED phase

\* A source is saved while gofmt, another process, is formatting it: gofmt writes
\* what it has read before.  (Save and write are one step: nothing happens in
\* between, and a save that gofmt is killed before overwriting is an Edit.)
SaveDuringGofmt ==
    /\ pc = "gofmt" /\ gofmtF
    /\ edits < MaxEdits /\ edits' = edits + 1
    /\ \E f \in File, s \in Sources :
          /\ s.state # "lost" /\ Legal([source EXCEPT ![f] = s])
          /\ Parses("source", f) /\ ~source[f].tidy
          /\ source' = [source EXCEPT ![f].tidy = TRUE]
          /\ text' = [text EXCEPT ![f] = Text(s)]
          /\ harmed' = harmed \cup {f}
    /\ sound' = FALSE
    /\ UNCHANGED <<generated, pc, tool, todo, cur, exit, unparsed, found, made, runs, io>>

\* gofmt -s -w formats every file of the directory that it can parse.
Formatted ==
    /\ source' = [f \in File |->
          [source[f] EXCEPT !.tidy = IF Parses("source", f) THEN TRUE ELSE @]]
    /\ generated' = [f \in File |->
          [generated[f] EXCEPT !.tidy = IF Parses("generated", f) THEN TRUE ELSE @]]

Unparsable == \E i \in GoFiles : ~Parses(i.kind, i.file)

gofmt ==
    /\ pc = "gofmt"
    /\ gofmtF => ~Unparsable
    /\ IF gofmtF THEN Formatted ELSE UNCHANGED files
    /\ AfterPackage
    /\ UNCHANGED <<gofmtF, gofile, buffer, todo, cur, hist>>

gofmtFails ==
    /\ pc = "gofmt" /\ gofmtF
    /\ \/ Unparsable /\ Formatted /\ Fatalf(FALSE)
       \/ UNCHANGED files /\ Fatalf(TRUE)
    /\ UNCHANGED <<tool, todo, cur, unparsed, found, made, text, harmed, edits, runs, sound>>

\* The command is killed, at any point.
Kill ==
    /\ pc # "idle"
    /\ pc' = "idle" /\ exit' = "killed"
    /\ Interrupted
    /\ harmed' = harmed \cup Rewritten
    /\ UNCHANGED <<source, tool, todo, cur, unparsed, found, made, text, edits, runs, io, sound>>

-----------------------------------------------------------------------------
processFile == Create \/ WriteProlog \/ WriteStruct \/ WriteInit \/ Close \/ WriteFails
goformat    == GoformatRead \/ GoformatSame \/ GoformatTruncate \/ GoformatWrite \/ GoformatFails

Next ==
    \/ Edit \/ Start \/ Kill
    \/ \E i \in Items : ParseFile(i) \/ ParseFails(i)
    \/ processFile \/ goformat \/ SaveDuringGofmt \/ gofmt \/ gofmtFails

Spec == Init /\ [][Next]_vars

-----------------------------------------------------------------------------
\* Types; a file under way has structs left to write, and what is in it was
\* found in the source.
TypeOK ==
    /\ source \in [File -> Sources] /\ generated \in [File -> Generated]
    /\ pc \in {"idle", "file", "create", "write", "goformat", "format", "rewrite", "gofmt"}
    /\ phase \in {"args", "env"} /\ gofmtF \in BOOLEAN /\ gofile \in File \cup {NoFile}
    /\ todo \subseteq Items /\ cur \in Items
    /\ buffer \in Sources \cup Generated
    /\ exit \in {"none", "ok", "fatal", "killed"}
    /\ unparsed \subseteq File
    /\ found \in [File -> SUBSET Struct] /\ made \in [File -> SUBSET Struct]
    /\ text \in [File -> [state : {"good", "refused", "broken", "gone"}, structs : SUBSET Struct]]
    /\ harmed \subseteq File
    /\ edits \in 0 .. MaxEdits /\ runs \in 0 .. MaxRuns /\ io \in BOOLEAN /\ sound \in BOOLEAN
    /\ pc = "write" => Out.part # "torn" /\ Out.structs \subseteq found[cur.file]

Complete(f, structs) == generated[f].part = "whole" /\ generated[f].structs = structs

\* main's exit code (main.go:171-199): when the command ends well, every source
\* of the package was parsed, and each that declares structs has a complete
\* generated file with exactly the structs it had when it was parsed, whatever
\* earlier runs had left there and whatever was edited in the meantime.
OkMeansGenerated ==
    exit = "ok" =>
        unparsed = {} /\ \A f \in File : found[f] # {} => Complete(f, found[f])

\* processFile parses first and truncates second (main.go:32-49): unless the
\* command is killed or a write fails, a generated file is at the end of a run
\* either untouched or complete; a refused or broken source costs no file.
WholeOrUntouched ==
    exit \in {"ok", "fatal"} /\ ~io => \A f \in File : made[f] # {} => Complete(f, made[f])

\* A run over a directory in which all sources are fine succeeds unless a read
\* or write fails: what a killed run has left half written is written anew before it
\* is parsed as a file of the package, because x.go sorts before x_reform.go
\* (main.go:172).  A file without package clause is excluded, see ImportDir:
\* the command refuses the whole directory until it is removed.
RerunRepairs == exit = "fatal" => io \/ ~sound

\* goformat rewrites hand-written files in place (main.go:104-117), and so does
\* gofmt.  What the programmer wrote last stays in the file through any run,
\* unless the file is saved after it was read and before it is written, or, without
\* gofmt, the command is stopped between truncating and writing it.  A file that
\* does not parse is never written to, nor one that is formatted already.
HandWrittenKept ==
    \A f \in File : Text(source[f]) = text[f] \/ Rewriting(f) \/ f \in harmed

-----------------------------------------------------------------------------
\* What the documentation says and the code does not do.

\* "reform command with -gofmt=false flag still formats generated sources with
\* go/format package" (CHANGELOG.md:50).
GeneratedIsFormatted ==
    exit = "ok" /\ ~gofmtF => \A f \in File : made[f] # {} => generated[f].tidy
=============================================================================
