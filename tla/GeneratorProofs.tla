---------------------------- MODULE GeneratorProofs ----------------------------
(***************************************************************************)
(* Proofs about Generator, for any package, any number of runs and edits.  *)
(***************************************************************************)
EXTENDS Generator, TLAPS

\* What goformat has read is of the kind of the file it formats.
TypeInv ==
    /\ TypeOK
    /\ pc \in {"format", "rewrite"} => buffer \in IF cur.kind = "source" THEN Sources ELSE Generated

-----------------------------------------------------------------------------
\* Where the steps lead

LEMMA AfterFileGoes ==
    ASSUME NEW rest, AfterFile(rest)
    PROVE  /\ todo' = rest /\ pc' \in {"goformat", "file", "gofmt"}
           /\ pc' = "gofmt" => rest = {}
BY DEF AfterFile

LEMMA AfterFormatGoes ==
    ASSUME AfterFormat
    PROVE  pc' \in {"file", "gofmt"} /\ (pc' = "gofmt" => todo = {})
BY DEF AfterFormat

LEMMA WrittenType ==
    ASSUME NEW p \in {"absent", "empty", "open", "torn", "whole"}, NEW s \in SUBSET Struct
    PROVE  Written(p, s) \in Generated
BY DEF Written, Generated

\* The files after a step that writes one generated file.
LEMMA PutFile ==
    ASSUME TypeInv, NEW g, Put(g)
    PROVE  /\ Out' = g \/ cur' # cur
           /\ generated'[cur.file] = g
           /\ \A f \in File : f # cur.file => generated'[f] = generated[f]
           /\ g \in Generated => generated' \in [File -> Generated]
<1>1. generated \in [File -> Generated] /\ cur.file \in File
  BY DEF TypeInv, TypeOK, Items
<1> QED  BY <1>1 DEF Put, Out

-----------------------------------------------------------------------------
\* Types

LEMMA TypeInit == Init => TypeInv
<1> SUFFICES ASSUME Init PROVE TypeInv
  OBVIOUS
<1>1. source \in [File -> Sources] /\ \A f \in File : source[f].state # "lost"
  BY DEF Init
<1>2. generated \in [File -> Generated]
  BY WrittenType DEF Init
<1>3. text \in [File -> [state : {"good", "refused", "broken", "gone"}, structs : SUBSET Struct]]
  <2>1. \A f \in File : Text(source[f]) \in [state : {"good", "refused", "broken", "gone"}, structs : SUBSET Struct]
    BY <1>1 DEF Text, Sources
  <2> QED  BY <2>1 DEF Init
<1>4. buffer \in Sources
  BY DEF Init, Sources
<1>5. /\ pc = "idle" /\ phase = "args" /\ gofmtF = TRUE /\ gofile = NoFile /\ todo = {}
      /\ cur \in Items /\ exit = "none" /\ unparsed = {} /\ harmed = {}
      /\ edits = 0 /\ runs = 0 /\ io = FALSE /\ sound = FALSE
  BY DEF Init
<1>6. found \in [File -> SUBSET Struct] /\ made \in [File -> SUBSET Struct]
  BY DEF Init
<1>7. edits \in 0 .. MaxEdits /\ runs \in 0 .. MaxRuns
  BY <1>5, GeneratorAssumption
<1>8. TypeOK
  BY <1>1, <1>2, <1>3, <1>4, <1>5, <1>6, <1>7 DEF TypeOK
<1> QED  BY <1>5, <1>8 DEF TypeInv

LEMMA InterruptedType ==
    ASSUME TypeInv, Interrupted
    PROVE  generated' \in [File -> Generated]
<1>1. CASE UNCHANGED generated
  BY <1>1 DEF TypeInv, TypeOK
<1>2. CASE Put(Written("torn", {}))
  BY <1>2, PutFile, WrittenType
<1> QED  BY <1>1, <1>2 DEF Interrupted

LEMMA FormattedType ==
    ASSUME TypeInv, Formatted
    PROVE  source' \in [File -> Sources] /\ generated' \in [File -> Generated]
<1>1. source \in [File -> Sources] /\ generated \in [File -> Generated]
  BY DEF TypeInv, TypeOK
<1>2. \A f \in File : [source[f] EXCEPT !.tidy = IF Parses("source", f) THEN TRUE ELSE @] \in Sources
  BY <1>1 DEF Sources
<1>3. \A f \in File : [generated[f] EXCEPT !.tidy = IF Parses("generated", f) THEN TRUE ELSE @] \in Generated
  BY <1>1 DEF Generated
<1> QED  BY <1>2, <1>3, Zenon DEF Formatted

LEMMA TypeStep == TypeInv /\ [Next]_vars => TypeInv'
<1> SUFFICES ASSUME TypeInv, [Next]_vars PROVE TypeInv'
  OBVIOUS
<1>0. /\ source \in [File -> Sources] /\ generated \in [File -> Generated]
      /\ cur \in Items /\ cur.file \in File /\ found[cur.file] \in SUBSET Struct
      /\ Out \in Generated /\ Out.structs \in SUBSET Struct
  BY DEF TypeInv, TypeOK, Items, Out, Generated
<1>1. CASE UNCHANGED vars
  BY <1>1 DEF vars, files, tool, hist, TypeInv, TypeOK, Out
<1>2. CASE Edit
  <2>1. PICK f \in File, s \in Sources :
            /\ s.state # "lost"
            /\ source' = [source EXCEPT ![f] = s]
            /\ text' = [text EXCEPT ![f] = Text(s)]
            /\ harmed' = IF Formatting(f) THEN harmed \cup {f} ELSE harmed \ {f}
    BY <1>2 DEF Edit
  <2>2. source' \in [File -> Sources] /\ harmed' \subseteq File
    BY <1>0, <2>1 DEF TypeInv, TypeOK
  <2>3. Text(s) \in [state : {"good", "refused", "broken", "gone"}, structs : SUBSET Struct]
    BY <2>1 DEF Text, Sources
  <2>4. text' \in [File -> [state : {"good", "refused", "broken", "gone"}, structs : SUBSET Struct]]
    BY <2>1, <2>3 DEF TypeInv, TypeOK
  <2>5. edits' \in 0 .. MaxEdits
    BY <1>2, GeneratorAssumption DEF Edit, TypeInv, TypeOK
  <2>6. /\ UNCHANGED <<generated, pc, phase, gofmtF, gofile, buffer, todo, cur, exit, unparsed,
                        found, made, runs, io>>
        /\ sound' = FALSE
    BY <1>2 DEF Edit, tool
  <2>7. Out' = Out
    BY <2>6 DEF Out
  <2>8. TypeOK'
    BY <2>2, <2>4, <2>5, <2>6, <2>7, ZenonT(40) DEF TypeInv, TypeOK
  <2> QED  BY <2>6, <2>8 DEF TypeInv
<1>3. CASE Start
  <2>1. PICK args \in BOOLEAN, flag \in BOOLEAN, env \in File \cup {NoFile} :
            /\ phase' = IF args THEN "args" ELSE "env"
            /\ gofmtF' = flag /\ gofile' = env
            /\ todo' = IF args THEN GoFiles ELSE {}
            /\ unparsed' = {f \in File : (args /\ Exists("source", f)) \/ f = env}
            /\ sound' = Sound(args, env)
            /\ IF args /\ ~ImportDir THEN pc' = "idle" /\ exit' = "fatal"
                                     ELSE pc' = "file" /\ exit' = "none"
    BY <1>3 DEF Start
  <2>2. Sound(args, env) \in BOOLEAN
    BY DEF Sound
  <2>3. runs' \in 0 .. MaxRuns
    BY <1>3, GeneratorAssumption DEF Start, TypeInv, TypeOK
  <2>4. todo' \subseteq Items /\ unparsed' \subseteq File
    BY <2>1 DEF GoFiles
  <2>5. found' \in [File -> SUBSET Struct] /\ made' \in [File -> SUBSET Struct]
    BY <1>3 DEF Start
  <2>6. pc' \in {"idle", "file"} /\ exit' \in {"fatal", "none"}
    BY <2>1
  <2> QED
    BY <1>3, <2>1, <2>2, <2>3, <2>4, <2>5, <2>6 DEF Start, files, TypeInv, TypeOK
<1>4. CASE Kill
  <2>1. generated' \in [File -> Generated]
    BY <1>4, InterruptedType DEF Kill
  <2> QED  BY <1>4, <2>1 DEF Kill, tool, Rewritten, TypeInv, TypeOK
<1>5. ASSUME NEW i \in Items, ParseFile(i) PROVE TypeInv'
  <2>1. todo' = todo \ {i} /\ pc' \in {"create", "goformat", "file", "gofmt"}
    BY <1>5, AfterFileGoes DEF ParseFile
  <2>2. found' \in [File -> SUBSET Struct] /\ unparsed' \subseteq File
    BY <1>0, <1>5 DEF ParseFile, Sources, Items, TypeInv, TypeOK
  <2> QED  BY <1>5, <2>1, <2>2 DEF ParseFile, files, tool, TypeInv, TypeOK
<1>6. ASSUME NEW i \in Items, ParseFails(i) PROVE TypeInv'
  BY <1>6 DEF ParseFails, Fatalf, files, tool, TypeInv, TypeOK
<1>7. CASE Create
  <2>1. generated' \in [File -> Generated] /\ Out' = Written("empty", {})
    BY <1>7, PutFile, WrittenType DEF Create
  <2>2. made' \in [File -> SUBSET Struct]
    BY <1>0, <1>7 DEF Create, TypeInv, TypeOK
  <2> QED  BY <1>7, <2>1, <2>2 DEF Create, tool, Written, TypeInv, TypeOK
<1>8. CASE WriteProlog
  <2>1. generated' \in [File -> Generated] /\ Out' = Written("open", {})
    BY <1>8, PutFile, WrittenType DEF WriteProlog
  <2> QED  BY <1>8, <2>1 DEF WriteProlog, tool, hist, Written, TypeInv, TypeOK
<1>9. CASE WriteStruct
  <2>1. PICK s \in found[cur.file] \ Out.structs : Put(Written("open", Out.structs \cup {s}))
    BY <1>9 DEF WriteStruct
  <2>2. Out.structs \cup {s} \in SUBSET Struct
    BY <1>0
  <2>3. generated' \in [File -> Generated] /\ Out' = Written("open", Out.structs \cup {s})
    BY <1>9, <2>1, <2>2, PutFile, WrittenType DEF WriteStruct
  <2> QED  BY <1>9, <2>1, <2>3 DEF WriteStruct, tool, hist, Written, TypeInv, TypeOK
<1>10. CASE WriteInit
  <2>1. generated' \in [File -> Generated] /\ Out' = Written("whole", Out.structs)
    BY <1>0, <1>10, PutFile, WrittenType DEF WriteInit
  <2> QED  BY <1>10, <2>1 DEF WriteInit, tool, hist, Written, TypeInv, TypeOK
<1>11. CASE Close
  <2>1. todo' = todo /\ pc' \in {"goformat", "file", "gofmt"}
    BY <1>11, AfterFileGoes DEF Close
  <2> QED  BY <1>11, <2>1 DEF Close, files, tool, hist, TypeInv, TypeOK
<1>12. CASE WriteFails
  <2>1. generated' \in [File -> Generated]
    BY <1>12, InterruptedType DEF WriteFails
  <2> QED  BY <1>12, <2>1 DEF WriteFails, Fatalf, tool, TypeInv, TypeOK
<1>13. CASE GoformatSame
  <2>1. pc' \in {"file", "gofmt"}
    BY <1>13, AfterFormatGoes DEF GoformatSame
  <2> QED  BY <1>13, <2>1 DEF GoformatSame, files, tool, hist, TypeInv, TypeOK
<1>14. CASE GoformatTruncate
  <2>1. source' \in [File -> Sources] /\ generated' \in [File -> Generated]
    <3>1. CASE cur.kind = "source"
      <4>1. [state |-> "lost", structs |-> {}, tidy |-> FALSE] \in Sources
        BY DEF Sources
      <4> QED  BY <1>0, <1>14, <3>1, <4>1 DEF GoformatTruncate
    <3>2. CASE cur.kind # "source"
      BY <1>0, <1>14, <3>2, PutFile, WrittenType DEF GoformatTruncate
    <3> QED  BY <3>1, <3>2
  <2> QED  BY <1>14, <2>1 DEF GoformatTruncate, tool, hist, TypeInv, TypeOK
<1>15. CASE GoformatWrite
  <2>1. pc' \in {"file", "gofmt"}
    BY <1>15, AfterFormatGoes DEF GoformatWrite
  <2>2. source' \in [File -> Sources] /\ generated' \in [File -> Generated]
    <3>1. CASE cur.kind = "source"
      <4>1. [buffer EXCEPT !.tidy = TRUE] \in Sources
        BY <1>15, <3>1 DEF GoformatWrite, TypeInv, Sources
      <4> QED  BY <1>0, <1>15, <3>1, <4>1 DEF GoformatWrite
    <3>2. CASE cur.kind # "source"
      <4>1. [buffer EXCEPT !.tidy = TRUE] \in Generated
        BY <1>15, <3>2 DEF GoformatWrite, TypeInv, Generated
      <4> QED  BY <1>0, <1>15, <3>2, <4>1, PutFile DEF GoformatWrite
    <3> QED  BY <3>1, <3>2
  <2> QED  BY <1>15, <2>1, <2>2 DEF GoformatWrite, tool, hist, TypeInv, TypeOK
<1>16. CASE GoformatFails
  BY <1>16 DEF GoformatFails, Fatalf, Rewritten, files, tool, TypeInv, TypeOK
<1>17. CASE gofmt
  <2>1. source' \in [File -> Sources] /\ generated' \in [File -> Generated]
    BY <1>0, <1>17, FormattedType DEF gofmt, files
  <2> QED  BY <1>17, <2>1 DEF gofmt, AfterPackage, hist, TypeInv, TypeOK
<1>18. CASE gofmtFails
  <2>1. source' \in [File -> Sources] /\ generated' \in [File -> Generated]
    BY <1>0, <1>18, FormattedType DEF gofmtFails, files
  <2> QED  BY <1>18, <2>1 DEF gofmtFails, Fatalf, tool, TypeInv, TypeOK
<1>19. CASE GoformatRead
  <2>1. buffer' \in IF cur.kind = "source" THEN Sources ELSE Generated
    BY <1>0, <1>19 DEF GoformatRead, Content
  <2> QED  BY <1>19, <2>1 DEF GoformatRead, files, hist, TypeInv, TypeOK
<1>20. CASE SaveDuringGofmt
  <2>1. PICK f \in File, s \in Sources :
            /\ s.state # "lost"
            /\ source' = [source EXCEPT ![f].tidy = TRUE]
            /\ text' = [text EXCEPT ![f] = Text(s)]
            /\ harmed' = harmed \cup {f}
    BY <1>20 DEF SaveDuringGofmt
  <2>2. [source[f] EXCEPT !.tidy = TRUE] \in Sources
    BY <1>0 DEF Sources
  <2>3. source' \in [File -> Sources] /\ harmed' \subseteq File
    BY <1>0, <2>1, <2>2 DEF TypeInv, TypeOK
  <2>4. Text(s) \in [state : {"good", "refused", "broken", "gone"}, structs : SUBSET Struct]
    BY <2>1 DEF Text, Sources
  <2>5. text' \in [File -> [state : {"good", "refused", "broken", "gone"}, structs : SUBSET Struct]]
    BY <2>1, <2>4 DEF TypeInv, TypeOK
  <2>6. edits' \in 0 .. MaxEdits
    BY <1>20, GeneratorAssumption DEF SaveDuringGofmt, TypeInv, TypeOK
  <2>7. /\ UNCHANGED <<generated, pc, phase, gofmtF, gofile, buffer, todo, cur, exit, unparsed,
                        found, made, runs, io>>
        /\ sound' = FALSE
    BY <1>20 DEF SaveDuringGofmt, tool
  <2>8. Out' = Out
    BY <2>7 DEF Out
  <2>9. TypeOK'
    BY <2>3, <2>5, <2>6, <2>7, <2>8, ZenonT(40) DEF TypeInv, TypeOK
  <2> QED  BY <2>7, <2>9 DEF TypeInv
<1> QED
  BY <1>1, <1>2, <1>3, <1>4, <1>5, <1>6, <1>7, <1>8, <1>9, <1>10, <1>11, <1>12, <1>13, <1>14,
     <1>15, <1>16, <1>17, <1>18, <1>19, <1>20
  DEF Next, processFile, goformat

\* Formatting leaves the state, the parts and the structs of a file alone.
LEMMA FormattedKeeps ==
    ASSUME TypeInv, Formatted, NEW f \in File
    PROVE  /\ source'[f].state = source[f].state /\ source'[f].structs = source[f].structs
           /\ generated'[f].part = generated[f].part
           /\ generated'[f].structs = generated[f].structs
<1>1. source[f] \in Sources /\ generated[f] \in Generated
  BY DEF TypeInv, TypeOK
<1>2. source'[f] = [source[f] EXCEPT !.tidy = IF Parses("source", f) THEN TRUE ELSE @]
  BY DEF Formatted
<1>3. generated'[f] = [generated[f] EXCEPT !.tidy = IF Parses("generated", f) THEN TRUE ELSE @]
  BY DEF Formatted
<1> QED  BY <1>1, <1>2, <1>3 DEF Sources, Generated

-----------------------------------------------------------------------------
\* The places of a run

RunInv ==
    /\ pc # "idle" => exit = "none" /\ ~io
    /\ exit = "ok" => ~io
    /\ pc = "gofmt" => todo = {}
    /\ phase = "env" => todo = {} /\ gofile \in File
    /\ pc \in {"create", "write"} => cur.kind = "source" /\ found[cur.file] # {}
    /\ pc \in {"create", "write", "goformat", "format", "rewrite"} => cur \notin todo
    /\ pc = "write" => /\ made[cur.file] = found[cur.file]
                       /\ Out.part = "whole" => Out.structs = found[cur.file]
    /\ pc = "format" /\ cur.kind = "generated" => buffer = Out
    /\ pc = "rewrite" => IsGo(cur.kind, buffer) /\ ~buffer.tidy
    /\ pc = "rewrite" /\ cur.kind = "generated" => Out.part = "empty"

LEMMA RunInit == Init => RunInv
BY DEF Init, RunInv

LEMMA RunStep == TypeInv /\ RunInv /\ [Next]_vars => RunInv'
<1> SUFFICES ASSUME TypeInv, RunInv, [Next]_vars PROVE RunInv'
  OBVIOUS
<1>0. /\ source \in [File -> Sources] /\ found \in [File -> SUBSET Struct]
      /\ made \in [File -> SUBSET Struct] /\ cur \in Items /\ cur.file \in File
      /\ todo \subseteq Items /\ gofile \in File \cup {NoFile} /\ phase \in {"args", "env"}
  BY DEF TypeInv, TypeOK, Items
<1>1. CASE UNCHANGED vars
  BY <1>1 DEF vars, files, tool, hist, RunInv, Out, IsGo
<1>2. CASE Edit
  BY <1>2 DEF Edit, tool, RunInv, Out, IsGo
<1>3. CASE Start
  <2>1. io' = FALSE /\ pc' \in {"idle", "file"} /\ exit' \in {"fatal", "none"}
        /\ (pc' # "idle" => exit' = "none")
        /\ (phase' = "env" => todo' = {} /\ gofile' \in File)
    BY <1>3 DEF Start
  <2> QED  BY <2>1 DEF RunInv
<1>4. CASE Kill
  BY <1>4 DEF Kill, tool, RunInv
<1>5. ASSUME NEW i \in Items, ParseFile(i) PROVE RunInv'
  <2>1. /\ pc = "file" /\ cur' = i /\ todo' = todo \ {i}
        /\ UNCHANGED <<files, tool, exit, made, io>>
        /\ pc' \in {"create", "goformat", "file", "gofmt"} /\ (pc' = "gofmt" => todo' = {})
    BY <1>5, AfterFileGoes DEF ParseFile, NextFile
  <2>2. pc' = "create" => i.kind = "source" /\ found'[i.file] # {}
    BY <1>0, <1>5, AfterFileGoes DEF ParseFile, Items
  <2> QED  BY <2>1, <2>2 DEF RunInv, tool
<1>6. ASSUME NEW i \in Items, ParseFails(i) PROVE RunInv'
  BY <1>6 DEF ParseFails, Fatalf, tool, RunInv
<1>7. CASE Create
  <2>1. Out' = Written("empty", {})
    BY <1>7, PutFile DEF Create
  <2>2. Out'.part = "empty"
    BY <2>1 DEF Written
  <2>3. made'[cur.file] = found[cur.file]
    BY <1>0, <1>7 DEF Create
  <2> QED  BY <1>7, <2>2, <2>3 DEF Create, tool, RunInv
<1>8. CASE WriteProlog
  <2>1. Out' = Written("open", {})
    BY <1>8, PutFile DEF WriteProlog
  <2> QED  BY <1>8, <2>1 DEF WriteProlog, tool, hist, Written, RunInv
<1>9. CASE WriteStruct
  <2>1. PICK s : Put(Written("open", Out.structs \cup {s}))
    BY <1>9 DEF WriteStruct
  <2>2. Out' = Written("open", Out.structs \cup {s})
    BY <1>9, <2>1, PutFile DEF WriteStruct
  <2>3. Out'.part = "open"
    BY <2>2 DEF Written
  <2> QED  BY <1>9, <2>3 DEF WriteStruct, tool, hist, RunInv
<1>10. CASE WriteInit
  <2>1. Out' = Written("whole", Out.structs)
    BY <1>10, PutFile DEF WriteInit
  <2> QED  BY <1>10, <2>1 DEF WriteInit, tool, hist, Written, RunInv
<1>11. CASE Close
  <2>1. pc' \in {"goformat", "file", "gofmt"} /\ (pc' = "gofmt" => todo = {}) /\ todo' = todo
    BY <1>11, AfterFileGoes DEF Close
  <2> QED  BY <1>11, <2>1 DEF Close, files, tool, hist, RunInv
<1>12. CASE WriteFails
  BY <1>12 DEF WriteFails, Fatalf, tool, RunInv
<1>13. CASE GoformatSame
  <2>1. pc' \in {"file", "gofmt"} /\ (pc' = "gofmt" => todo = {})
    BY <1>13, AfterFormatGoes DEF GoformatSame
  <2> QED  BY <1>13, <2>1 DEF GoformatSame, tool, hist, RunInv
<1>14. CASE GoformatTruncate
  <2>1. cur.kind = "generated" => Out'.part = "empty"
    <3>1. CASE cur.kind = "generated"
      <4>1. Put(Written("empty", {})) /\ cur' = cur
        BY <1>14, <3>1 DEF GoformatTruncate
      <4>2. Out' = Written("empty", {})
        BY <4>1, PutFile
      <4> QED  BY <4>2 DEF Written
    <3> QED  BY <3>1
  <2> QED  BY <1>14, <2>1 DEF GoformatTruncate, IsGo, tool, hist, RunInv
<1>15. CASE GoformatWrite
  <2>1. pc' \in {"file", "gofmt"} /\ (pc' = "gofmt" => todo = {})
    BY <1>15, AfterFormatGoes DEF GoformatWrite
  <2> QED  BY <1>15, <2>1 DEF GoformatWrite, tool, hist, RunInv
<1>16. CASE GoformatFails
  BY <1>16 DEF GoformatFails, Fatalf, tool, RunInv
<1>17. CASE gofmt
  BY <1>0, <1>17 DEF gofmt, AfterPackage, hist, RunInv
<1>18. CASE gofmtFails
  BY <1>18 DEF gofmtFails, Fatalf, tool, RunInv
<1>19. CASE GoformatRead
  BY <1>19 DEF GoformatRead, Content, files, hist, Out, RunInv
<1>20. CASE SaveDuringGofmt
  BY <1>20 DEF SaveDuringGofmt, tool, RunInv
<1> QED
  BY <1>1, <1>2, <1>3, <1>4, <1>5, <1>6, <1>7, <1>8, <1>9, <1>10, <1>11, <1>12, <1>13, <1>14,
     <1>15, <1>16, <1>17, <1>18, <1>19, <1>20
  DEF Next, processFile, goformat

-----------------------------------------------------------------------------
\* What is written by hand

\* What goformat has read and is to write is what the programmer wrote last.
HandInv ==
    \A f \in File :
        \/ f \in harmed
        \/ /\ ~Rewriting(f) => Text(source[f]) = text[f]
           /\ Formatting(f) => Text(buffer) = text[f]

LEMMA HandInit == Init => HandInv
BY DEF Init, HandInv, Rewriting, Formatting

\* Steps that leave the sources alone, with none under way.
LEMMA HandFrame ==
    ASSUME HandInv, UNCHANGED <<source, text, harmed>>, pc # "rewrite",
           pc' \notin {"format", "rewrite"}
    PROVE  HandInv'
BY DEF HandInv, Rewriting, Formatting

\* The step stops goformat, or another one.
LEMMA HandStopped ==
    ASSUME HandInv, UNCHANGED <<source, text>>, harmed' = harmed \cup Rewritten, pc' = "idle"
    PROVE  HandInv'
BY DEF HandInv, Rewritten, Rewriting, Formatting

LEMMA HandStep == TypeInv /\ RunInv /\ HandInv /\ [Next]_vars => HandInv'
<1> SUFFICES ASSUME TypeInv, RunInv, HandInv, [Next]_vars PROVE HandInv'
  OBVIOUS
<1>0. source \in [File -> Sources] /\ text \in [File -> [state : {"good", "refused", "broken", "gone"}, structs : SUBSET Struct]]
      /\ cur \in Items /\ cur.file \in File
  BY DEF TypeInv, TypeOK, Items
<1>1. CASE UNCHANGED vars
  BY <1>1 DEF vars, files, tool, hist, HandInv, Rewriting, Formatting, IsGo
<1>2. CASE Edit
  <2>1. PICK f \in File, s \in Sources :
            /\ source' = [source EXCEPT ![f] = s]
            /\ text' = [text EXCEPT ![f] = Text(s)]
            /\ harmed' = IF Formatting(f) THEN harmed \cup {f} ELSE harmed \ {f}
    BY <1>2 DEF Edit
  <2>2. UNCHANGED <<pc, cur, buffer>>
    BY <1>2 DEF Edit, tool
  <2>3. Text(source'[f]) = text'[f] /\ (Formatting(f) => f \in harmed')
    BY <1>0, <2>1
  <2>4. \A g \in File : g # f => source'[g] = source[g] /\ text'[g] = text[g] /\ (g \in harmed' <=> g \in harmed)
    BY <1>0, <2>1
  <2>5. \A g \in File : (Rewriting(g)' <=> Rewriting(g)) /\ (Formatting(g)' <=> Formatting(g))
    BY <2>2 DEF Rewriting, Formatting, IsGo
  <2> QED  BY <2>2, <2>3, <2>4, <2>5 DEF HandInv
<1>3. CASE Start \/ (\E i \in Items : ParseFile(i) \/ ParseFails(i)) \/ processFile \/ GoformatSame
  <2>1. UNCHANGED <<source, text, harmed>> /\ pc # "rewrite"
    BY <1>3 DEF Start, ParseFile, ParseFails, NextFile, processFile, Create, WriteProlog, WriteStruct,
                WriteInit, Close, WriteFails, GoformatSame, files, hist
  <2>2. pc' \notin {"format", "rewrite"}
    BY <1>3, AfterFileGoes, AfterFormatGoes
    DEF Start, ParseFile, ParseFails, Fatalf, processFile, Create, WriteProlog, WriteStruct,
        WriteInit, Close, WriteFails, GoformatSame
  <2> QED  BY <2>1, <2>2, HandFrame
<1>4. CASE Kill \/ GoformatFails
  <2>1. UNCHANGED <<source, text>> /\ harmed' = harmed \cup Rewritten /\ pc' = "idle"
    BY <1>4 DEF Kill, GoformatFails, Fatalf, files
  <2> QED  BY <2>1, HandStopped
<1>5. CASE GoformatTruncate
  <2>1. /\ pc = "format" /\ pc' = "rewrite" /\ UNCHANGED <<cur, buffer, text, harmed>>
        /\ IsGo(cur.kind, buffer) /\ ~buffer.tidy
    BY <1>5 DEF GoformatTruncate, tool, hist
  <2>2. CASE cur.kind = "source"
    <3>1. \A f \in File : f # cur.file => source'[f] = source[f]
      BY <1>0, <1>5, <2>2 DEF GoformatTruncate
    <3>2. cur = [kind |-> "source", file |-> cur.file]
      BY <1>0, <2>2 DEF Items
    <3>3. Formatting(cur.file) /\ Rewriting(cur.file)'
      BY <2>1, <2>2, <3>2 DEF Formatting, Rewriting
    <3>4. cur.file \in harmed' \/ Text(buffer') = text'[cur.file]
      BY <1>0, <2>1, <3>3 DEF HandInv
    <3>5. \A f \in File : f # cur.file =>
              ~Formatting(f)' /\ ~Rewriting(f) /\ (f \in harmed' \/ Text(source'[f]) = text'[f])
      BY <2>1, <3>1, <3>2 DEF HandInv, Formatting, Rewriting
    <3> SUFFICES ASSUME NEW f \in File, f \notin harmed'
                 PROVE  /\ ~Rewriting(f)' => Text(source'[f]) = text'[f]
                        /\ Formatting(f)' => Text(buffer') = text'[f]
      BY DEF HandInv
    <3>6. CASE f = cur.file
      BY <2>1, <3>3, <3>4, <3>6
    <3>7. CASE f # cur.file
      BY <3>5, <3>7
    <3> QED  BY <3>6, <3>7
  <2>3. CASE cur.kind # "source"
    <3>1. source' = source
      BY <1>5, <2>3 DEF GoformatTruncate
    <3>2. \A f \in File : ~Rewriting(f) /\ ~Formatting(f)'
      BY <2>1, <2>3 DEF Rewriting, Formatting
    <3> QED  BY <2>1, <3>1, <3>2 DEF HandInv
  <2> QED  BY <2>2, <2>3
<1>6. CASE GoformatWrite
  <2>1. /\ pc = "rewrite" /\ pc' \notin {"format", "rewrite"}
        /\ UNCHANGED <<cur, text, harmed, buffer>>
        /\ IsGo(cur.kind, buffer) /\ ~buffer.tidy
    BY <1>6, AfterFormatGoes DEF GoformatWrite, RunInv, tool, hist
  <2>2. CASE cur.kind = "source"
    <3>1. buffer \in Sources
      BY <2>1, <2>2 DEF TypeInv
    <3>2. /\ source'[cur.file] = [buffer EXCEPT !.tidy = TRUE]
          /\ \A f \in File : f # cur.file => source'[f] = source[f]
      BY <1>0, <1>6, <2>2 DEF GoformatWrite
    <3>3. Text(source'[cur.file]) = Text(buffer)
      BY <3>1, <3>2 DEF Text, Sources
    <3>4. Formatting(cur.file)
      BY <1>0, <2>1, <2>2 DEF Formatting, Items
    <3>5. Text(source'[cur.file]) = text'[cur.file] \/ cur.file \in harmed'
      BY <1>0, <2>1, <3>3, <3>4 DEF HandInv
    <3> QED  BY <2>1, <3>2, <3>5 DEF HandInv, Rewriting, Formatting
  <2>3. CASE cur.kind # "source"
    <3>1. source' = source
      BY <1>6, <2>3 DEF GoformatWrite
    <3>2. \A f \in File : ~Rewriting(f)
      BY <2>3 DEF Rewriting
    <3> QED  BY <2>1, <3>1, <3>2 DEF HandInv, Formatting
  <2> QED  BY <2>2, <2>3
<1>7. CASE gofmt \/ gofmtFails
  <2>1. /\ UNCHANGED <<text, harmed>> /\ pc # "rewrite" /\ pc' \notin {"format", "rewrite"}
        /\ Formatted \/ source' = source
    BY <1>7 DEF gofmt, gofmtFails, AfterPackage, Fatalf, files, hist
  <2>2. \A f \in File : Text(source'[f]) = Text(source[f])
    BY <2>1, FormattedKeeps DEF Text
  <2> QED  BY <2>1, <2>2 DEF HandInv, Rewriting, Formatting
<1>8. CASE GoformatRead
  <2>1. /\ pc = "goformat" /\ pc' = "format" /\ UNCHANGED <<source, cur, text, harmed>>
        /\ buffer' = Content(cur.kind, cur.file)
    BY <1>8 DEF GoformatRead, files, hist
  <2>2. \A f \in File : ~Rewriting(f)
    BY <2>1 DEF Rewriting
  <2>3. \A f \in File : Formatting(f)' => buffer' = source[f]
    BY <2>1 DEF Formatting, Content
  <2> QED  BY <2>1, <2>2, <2>3 DEF HandInv
<1>9. CASE SaveDuringGofmt
  <2>1. PICK f \in File, s \in Sources :
            /\ source' = [source EXCEPT ![f].tidy = TRUE]
            /\ text' = [text EXCEPT ![f] = Text(s)]
            /\ harmed' = harmed \cup {f}
    BY <1>9 DEF SaveDuringGofmt
  <2>2. pc = "gofmt" /\ pc' = "gofmt"
    BY <1>9 DEF SaveDuringGofmt
  <2>3. \A g \in File : g # f => source'[g] = source[g] /\ text'[g] = text[g]
    BY <1>0, <2>1
  <2> QED  BY <2>1, <2>2, <2>3 DEF HandInv, Rewriting, Formatting
<1> QED
  BY <1>1, <1>2, <1>3, <1>4, <1>5, <1>6, <1>7, <1>8, <1>9 DEF Next, goformat

-----------------------------------------------------------------------------
\* What a run has parsed, and what it has made

SourceItem(f) == [kind |-> "source", file |-> f]

\* A source is parsed by the loop, or as the file of go generate after it.
UnparsedInv ==
    /\ pc # "idle" => \A f \in unparsed :
          \/ phase = "args" /\ SourceItem(f) \in todo
          \/ gofile = f /\ (phase = "args" \/ pc = "file")
    /\ exit = "ok" => unparsed = {}

LEMMA UnparsedInit == Init => UnparsedInv
BY DEF Init, UnparsedInv

LEMMA UnparsedStep == TypeInv /\ RunInv /\ UnparsedInv /\ [Next]_vars => UnparsedInv'
<1> SUFFICES ASSUME TypeInv, RunInv, UnparsedInv, [Next]_vars PROVE UnparsedInv'
  OBVIOUS
<1>0. unparsed \subseteq File /\ NoFile \notin File /\ (pc # "idle" => exit = "none")
      /\ phase \in {"args", "env"}
  BY GeneratorAssumption DEF TypeInv, TypeOK, RunInv
<1>1. CASE UNCHANGED vars
  BY <1>1 DEF vars, tool, hist, UnparsedInv
<1>2. CASE Edit \/ SaveDuringGofmt
  BY <1>2 DEF Edit, SaveDuringGofmt, tool, UnparsedInv
<1>3. CASE Start
  <2>1. PICK args \in BOOLEAN, env \in File \cup {NoFile} :
            /\ phase' = IF args THEN "args" ELSE "env"
            /\ gofile' = env
            /\ todo' = IF args THEN GoFiles ELSE {}
            /\ unparsed' = {f \in File : (args /\ Exists("source", f)) \/ f = env}
            /\ pc' \in {"idle", "file"} /\ exit' # "ok"
    BY <1>3 DEF Start
  <2>2. \A f \in File : Exists("source", f) => SourceItem(f) \in GoFiles
    BY DEF GoFiles, SourceItem, Items
  <2> QED  BY <2>1, <2>2 DEF UnparsedInv
<1>4. CASE Kill \/ WriteFails \/ GoformatFails \/ gofmtFails \/ \E i \in Items : ParseFails(i)
  <2>1. pc' = "idle" /\ exit' # "ok"
    BY <1>4 DEF Kill, WriteFails, GoformatFails, gofmtFails, ParseFails, Fatalf
  <2> QED  BY <2>1 DEF UnparsedInv
<1>5. ASSUME NEW i \in Items, ParseFile(i) PROVE UnparsedInv'
  <2>1. /\ pc = "file" /\ todo' = todo \ {i} /\ exit' = "none" /\ UNCHANGED <<phase, gofile>>
        /\ unparsed' = IF i.kind = "source" THEN unparsed \ {i.file} ELSE unparsed
        /\ phase = "env" => i = SourceItem(gofile)
    BY <1>0, <1>5, AfterFileGoes DEF ParseFile, NextFile, tool, SourceItem
  <2>2. ASSUME NEW f \in unparsed'
        PROVE  (phase = "args" /\ SourceItem(f) \in todo') \/ (gofile = f /\ phase = "args")
    <3>1. f \in unparsed /\ i # SourceItem(f)
      BY <2>1, <2>2 DEF SourceItem
    <3>2. phase = "env" => f # gofile
      BY <2>1, <3>1
    <3> QED  BY <1>0, <2>1, <3>1, <3>2 DEF UnparsedInv
  <2> QED  BY <2>1, <2>2 DEF UnparsedInv
<1>6. CASE Create \/ WriteProlog \/ WriteStruct \/ WriteInit \/ Close \/ GoformatRead
           \/ GoformatSame \/ GoformatTruncate \/ GoformatWrite
  <2>1. pc \notin {"idle", "file"} /\ UNCHANGED <<phase, gofile, unparsed, exit>>
    BY <1>6 DEF Create, WriteProlog, WriteStruct, WriteInit, Close, GoformatRead, GoformatSame,
                GoformatTruncate, GoformatWrite, tool, hist
  <2>2. todo' = todo
    BY <1>6, AfterFileGoes DEF Create, WriteProlog, WriteStruct, WriteInit, Close, GoformatRead,
                GoformatSame, GoformatTruncate, GoformatWrite
  <2> QED  BY <1>0, <2>1, <2>2 DEF UnparsedInv
<1>7. CASE gofmt
  <2>1. pc = "gofmt" /\ todo = {} /\ UNCHANGED <<gofile, unparsed, todo>> /\ AfterPackage
    BY <1>7 DEF gofmt, hist, RunInv
  <2> QED  BY <1>0, <2>1 DEF AfterPackage, UnparsedInv
<1> QED
  BY <1>1, <1>2, <1>3, <1>4, <1>5, <1>6, <1>7 DEF Next, processFile, goformat

\* Nothing but killing the command or a failing write leaves a file half made.
Unharmed == pc # "idle" \/ (exit \in {"ok", "fatal"} /\ ~io)

\* goformat has truncated the complete generated file of f, and holds it.
Held(f) ==
    /\ pc = "rewrite" /\ cur = [kind |-> "generated", file |-> f]
    /\ buffer.part = "whole" /\ buffer.structs = made[f]

MadeInv ==
    /\ Unharmed => \A f \in File : made[f] # {} =>
          Complete(f, made[f]) \/ (pc = "write" /\ cur.file = f) \/ Held(f)
    /\ pc # "idle" \/ exit = "ok" => \A f \in File : found[f] # {} =>
          made[f] = found[f] \/ (pc = "create" /\ cur.file = f)

LEMMA MadeInit == Init => MadeInv
BY DEF Init, MadeInv

\* Steps that write no generated file and end at a place of their own.
LEMMA MadeFrame ==
    ASSUME MadeInv, UNCHANGED <<made, found>>,
           pc \notin {"write", "rewrite"}, pc # "create" \/ (pc' = "idle" /\ exit' # "ok"),
           \A f \in File : generated'[f].part = generated[f].part
                           /\ generated'[f].structs = generated[f].structs,
           Unharmed' => Unharmed, exit' = "ok" \/ pc' # "idle" => pc # "idle" \/ exit = "ok"
    PROVE  MadeInv'
BY DEF MadeInv, Complete, Held

LEMMA MadeStep == TypeInv /\ RunInv /\ MadeInv /\ [Next]_vars => MadeInv'
<1> SUFFICES ASSUME TypeInv, RunInv, MadeInv, [Next]_vars PROVE MadeInv'
  OBVIOUS
<1>0. /\ cur \in Items /\ cur.file \in File
      /\ made \in [File -> SUBSET Struct] /\ found \in [File -> SUBSET Struct]
      /\ generated \in [File -> Generated]
      /\ pc # "idle" => exit = "none" /\ ~io
  BY DEF TypeInv, TypeOK, RunInv, Items
<1>1. CASE UNCHANGED vars
  BY <1>1 DEF vars, files, tool, hist, MadeInv, Unharmed, Complete, Held
<1>2. CASE Edit \/ SaveDuringGofmt
  BY <1>2 DEF Edit, SaveDuringGofmt, tool, MadeInv, Unharmed, Complete, Held
<1>3. CASE Start
  <2>1. found' = [f \in File |-> {}] /\ made' = [f \in File |-> {}]
    BY <1>3 DEF Start
  <2> QED  BY <2>1 DEF MadeInv
<1>4. CASE Kill \/ WriteFails
  <2>1. pc' = "idle" /\ exit' # "ok" /\ ~Unharmed'
    BY <1>4 DEF Kill, WriteFails, Fatalf, Unharmed
  <2> QED  BY <2>1 DEF MadeInv
<1>5. ASSUME NEW i \in Items, ParseFile(i) PROVE MadeInv'
  <2>1. /\ pc = "file" /\ pc' \in {"create", "goformat", "file", "gofmt"} /\ cur' = i
        /\ UNCHANGED <<generated, made>>
    BY <1>5, AfterFileGoes DEF ParseFile, NextFile, files
  <2>2. \A f \in File : found'[f] # {} => found'[f] = found[f] \/ (pc' = "create" /\ i.file = f)
    BY <1>0, <1>5 DEF ParseFile
  <2> QED  BY <2>1, <2>2 DEF MadeInv, Unharmed, Complete, Held
<1>6. ASSUME NEW i \in Items, ParseFails(i) PROVE MadeInv'
  <2>1. pc = "file" /\ pc' = "idle" /\ exit' = "fatal" /\ UNCHANGED <<generated, made, found>>
    BY <1>6 DEF ParseFails, Fatalf, NextFile, files
  <2> QED  BY <2>1, MadeFrame DEF Unharmed
<1>7. CASE Create
  <2>1. /\ pc = "create" /\ pc' = "write" /\ UNCHANGED <<cur, found>>
        /\ made' = [made EXCEPT ![cur.file] = found[cur.file]]
        /\ \A f \in File : f # cur.file => generated'[f] = generated[f]
    BY <1>7, PutFile DEF Create
  <2> QED  BY <1>0, <2>1 DEF MadeInv, Unharmed, Complete, Held
<1>8. CASE WriteProlog \/ WriteStruct \/ WriteInit
  <2>1. /\ pc = "write" /\ UNCHANGED <<pc, cur, exit, made, found, io>>
        /\ \E g : Put(g)
    BY <1>8 DEF WriteProlog, WriteStruct, WriteInit, hist
  <2>2. \A f \in File : f # cur.file => generated'[f] = generated[f]
    BY <2>1, PutFile
  <2> QED  BY <1>0, <2>1, <2>2 DEF MadeInv, Unharmed, Complete, Held
<1>9. CASE Close
  <2>1. /\ pc = "write" /\ pc' \in {"goformat", "file", "gofmt"}
        /\ UNCHANGED <<cur, generated, made, found>>
    BY <1>9, AfterFileGoes DEF Close, files, hist
  <2>2. Complete(cur.file, made[cur.file])
    BY <1>9 DEF Close, RunInv, Complete, Out
  <2> QED  BY <2>1, <2>2 DEF MadeInv, Unharmed, Complete, Held
<1>10. CASE GoformatRead \/ GoformatSame
  <2>1. /\ pc \in {"goformat", "format"} /\ pc' \in {"format", "file", "gofmt"}
        /\ UNCHANGED <<cur, generated, made, found>>
    BY <1>10, AfterFormatGoes DEF GoformatRead, GoformatSame, files, hist
  <2> QED  BY <2>1, MadeFrame DEF Unharmed
<1>11. CASE GoformatTruncate
  <2>1. pc = "format" /\ pc' = "rewrite" /\ UNCHANGED <<cur, buffer, made, found>>
    BY <1>11 DEF GoformatTruncate, tool, hist
  <2>2. CASE cur.kind = "source"
    <3>1. generated' = generated
      BY <1>11, <2>2 DEF GoformatTruncate
    <3> QED  BY <2>1, <3>1, MadeFrame DEF Unharmed
  <2>3. CASE cur.kind # "source"
    <3>2. cur = [kind |-> "generated", file |-> cur.file]
      BY <1>0, <2>3 DEF Items
    <3>1. /\ buffer' = generated[cur.file]
          /\ \A f \in File : f # cur.file => generated'[f] = generated[f]
      BY <1>11, <2>1, <2>3, <3>2, PutFile DEF GoformatTruncate, RunInv, Out
    <3> QED  BY <2>1, <3>1, <3>2 DEF MadeInv, Unharmed, Complete, Held
  <2> QED  BY <2>2, <2>3
<1>12. CASE GoformatWrite
  <2>1. pc = "rewrite" /\ pc' \in {"file", "gofmt"} /\ UNCHANGED <<cur, made, found>>
    BY <1>12, AfterFormatGoes DEF GoformatWrite, hist
  <2>2. CASE cur.kind = "source"
    <3>1. generated' = generated
      BY <1>12, <2>2 DEF GoformatWrite
    <3> QED  BY <2>1, <2>2, <3>1 DEF MadeInv, Unharmed, Complete, Held
  <2>3. CASE cur.kind # "source"
    <3>1. buffer \in Generated
      BY <2>1, <2>3 DEF TypeInv
    <3>2. /\ generated'[cur.file] = [buffer EXCEPT !.tidy = TRUE]
          /\ \A f \in File : f # cur.file => generated'[f] = generated[f]
      BY <1>12, <2>3, PutFile DEF GoformatWrite
    <3>3. generated'[cur.file].part = buffer.part /\ generated'[cur.file].structs = buffer.structs
      BY <3>1, <3>2 DEF Generated
    <3>4. \A f \in File : Held(f) => f = cur.file
      BY DEF Held
    <3>5. ~Complete(cur.file, made[cur.file])
      BY <1>0, <2>1, <2>3 DEF RunInv, Complete, Out, Items
    <3>6. \A f \in File : made[f] # {} => Complete(f, made[f])'
      <4> SUFFICES ASSUME NEW f \in File, made[f] # {} PROVE Complete(f, made[f])'
        OBVIOUS
      <4>1. Complete(f, made[f]) \/ Held(f)
        BY <2>1 DEF MadeInv, Unharmed
      <4>2. CASE f = cur.file
        BY <2>1, <3>3, <3>5, <4>1, <4>2 DEF Held, Complete
      <4>3. CASE f # cur.file
        BY <2>1, <3>2, <3>4, <4>1, <4>3 DEF Complete
      <4> QED  BY <4>2, <4>3
    <3> QED  BY <2>1, <3>6 DEF MadeInv, Unharmed
  <2> QED  BY <2>2, <2>3
<1>13. CASE GoformatFails
  <2>1. /\ pc \in {"goformat", "format", "rewrite"} /\ pc' = "idle" /\ exit' = "fatal"
        /\ UNCHANGED <<generated, made, found>>
        /\ (pc = "rewrite" => io')
    BY <1>13 DEF GoformatFails, Fatalf, files
  <2>2. CASE pc \in {"goformat", "format"}
    BY <2>1, <2>2, MadeFrame DEF Unharmed
  <2>3. CASE pc = "rewrite"
    BY <2>1, <2>3 DEF MadeInv, Unharmed
  <2> QED  BY <2>1, <2>2, <2>3
<1>14. CASE gofmt \/ gofmtFails
  <2>1. /\ pc = "gofmt" /\ UNCHANGED <<made, found>> /\ (Formatted \/ UNCHANGED generated)
    BY <1>14 DEF gofmt, gofmtFails, files, hist
  <2>2. \A f \in File : generated'[f].part = generated[f].part
                        /\ generated'[f].structs = generated[f].structs
    BY <2>1, FormattedKeeps
  <2> QED  BY <2>1, <2>2, MadeFrame DEF Unharmed
<1> QED
  BY <1>1, <1>2, <1>3, <1>4, <1>5, <1>6, <1>7, <1>8, <1>9, <1>10, <1>11, <1>12, <1>13, <1>14
  DEF Next, processFile, goformat

-----------------------------------------------------------------------------
\* A run over a sound directory

Bad(f) == generated[f].part \in {"empty", "torn"}

\* A file that does not parse is written anew before it is read.
Repaired(f) ==
    \/ pc \in {"create", "write"} /\ cur.file = f
    \/ pc = "rewrite" /\ cur = [kind |-> "generated", file |-> f]
    \/ /\ source[f].state = "good" /\ source[f].structs # {}
       /\ phase = "args" => SourceItem(f) \in todo
       /\ phase = "env" => pc = "file" /\ gofile = f

Fine(f) ==
    IF Rewriting(f) THEN buffer.state = "good" ELSE source[f].state \in {"good", "gone"}

SoundRun ==
    /\ \A f \in File : Fine(f)
    /\ \A i \in todo : Exists(i.kind, i.file)
    /\ gofile # NoFile => source[gofile].state # "gone"
    /\ \A f \in File : Bad(f) => Repaired(f)
    /\ pc \in {"create", "write", "goformat", "format"} => Exists(cur.kind, cur.file)
    /\ pc \in {"goformat", "format"} => Parses(cur.kind, cur.file)
    /\ pc = "format" => buffer = Content(cur.kind, cur.file)
    /\ pc = "rewrite" /\ cur.kind = "generated" => buffer.part \in {"open", "whole"}

SoundInv ==
    /\ pc # "idle" /\ sound => SoundRun
    /\ exit = "fatal" => io \/ ~sound

LEMMA SoundInit == Init => SoundInv
BY DEF Init, SoundInv

\* Steps of a run that leave source and generated files alone.
LEMMA SoundFrame ==
    ASSUME TypeInv, RunInv, SoundInv, pc \notin {"idle", "rewrite"}, pc' \notin {"idle", "rewrite"},
           UNCHANGED <<source, sound, phase, gofile, cur, exit>>, todo' = todo,
           \A f \in File : generated'[f].part = generated[f].part,
           sound /\ SoundRun =>
              /\ \A f \in File : Bad(f) /\ pc \in {"create", "write"} /\ cur.file = f =>
                    pc' \in {"create", "write"}
              /\ phase = "env" /\ pc = "file" => pc' = "file",
           pc' \in {"create", "write", "goformat", "format"} =>
              pc \in {"create", "write", "goformat"},
           sound /\ SoundRun =>
              /\ pc' \in {"goformat", "format"} => Parses(cur.kind, cur.file)'
              /\ pc' = "format" => buffer' = Content(cur.kind, cur.file)'
    PROVE  SoundInv'
<1>1. exit = "none"
  BY DEF RunInv
<1>2. CASE ~(sound /\ SoundRun)
  BY <1>1, <1>2 DEF SoundInv
<1>3. CASE sound /\ SoundRun
  <2>1. (\A f \in File : Fine(f))'
    BY <1>3 DEF SoundRun, Fine, Rewriting
  <2>2. (\A i \in todo : Exists(i.kind, i.file))'
    BY <1>3 DEF SoundRun, Exists, TypeInv, TypeOK, Items
  <2>3. (\A f \in File : Bad(f) => Repaired(f))'
    BY <1>3 DEF SoundRun, Bad, Repaired
  <2>4. (pc \in {"create", "write", "goformat", "format"} => Exists(cur.kind, cur.file))'
    BY <1>3 DEF SoundRun, Exists, TypeInv, TypeOK, Items
  <2> QED  BY <1>1, <1>3, <2>1, <2>2, <2>3, <2>4 DEF SoundInv, SoundRun
<1> QED  BY <1>2, <1>3

\* At the end of the loop every file parses.
LEMMA NothingBad ==
    ASSUME TypeInv, RunInv, SoundRun, pc \in {"goformat", "format", "gofmt"},
           NEW f \in File, Bad(f)
    PROVE  phase = "args" /\ SourceItem(f) \in todo /\ pc # "gofmt" /\ cur # SourceItem(f)
<1>1. Repaired(f) /\ phase \in {"args", "env"}
  BY DEF SoundRun, TypeInv, TypeOK
<1> QED  BY <1>1 DEF Repaired, RunInv

LEMMA SoundStart ==
    ASSUME TypeInv, Start
    PROVE  SoundInv'
<1>1. PICK args \in BOOLEAN, env \in File \cup {NoFile} :
          /\ phase' = IF args THEN "args" ELSE "env"
          /\ gofile' = env
          /\ todo' = IF args THEN GoFiles ELSE {}
          /\ sound' = Sound(args, env)
          /\ IF args /\ ~ImportDir THEN pc' = "idle" /\ exit' = "fatal"
                                   ELSE pc' = "file" /\ exit' = "none"
  BY DEF Start
<1>2. UNCHANGED <<source, generated>>
  BY DEF Start, files
<1>3. source \in [File -> Sources] /\ generated \in [File -> Generated] /\ NoFile \notin File
  BY GeneratorAssumption DEF TypeInv, TypeOK
<1>4. CASE ~Sound(args, env)
  BY <1>1, <1>4 DEF SoundInv
<1>5. CASE Sound(args, env)
  <2>1. ~(args /\ ~ImportDir)
    BY <1>5 DEF Sound, ImportDir
  <2>2. pc' = "file" /\ exit' = "none"
    BY <1>1, <2>1
  <2>3. (\A f \in File : Fine(f))'
    BY <1>2, <1>5, <2>2 DEF Sound, Fine, Rewriting
  <2>4. (\A i \in todo : Exists(i.kind, i.file))'
    BY <1>1, <1>2 DEF GoFiles, Exists
  <2>5. (gofile # NoFile => source[gofile].state # "gone")'
    BY <1>1, <1>2, <1>5 DEF Sound
  <2>6. (\A f \in File : Bad(f) => Repaired(f))'
    <3> SUFFICES ASSUME NEW f \in File, Bad(f)' PROVE Repaired(f)'
      OBVIOUS
    <3>1. generated[f].part \in {"empty", "torn"}
      BY <1>2 DEF Bad
    <3>2. source[f].state = "good" /\ source[f].structs # {} /\ (args \/ env = f)
      BY <1>5, <3>1 DEF Sound
    <3>3. SourceItem(f) \in GoFiles
      BY <3>2 DEF SourceItem, GoFiles, Items, Exists
    <3> QED  BY <1>1, <1>2, <2>2, <3>2, <3>3 DEF Repaired
  <2> QED  BY <2>2, <2>3, <2>4, <2>5, <2>6 DEF SoundInv, SoundRun
<1> QED  BY <1>4, <1>5

LEMMA SoundParse ==
    ASSUME TypeInv, RunInv, SoundInv, NEW i \in Items, ParseFile(i)
    PROVE  SoundInv'
<1>1. /\ pc = "file" /\ cur' = i /\ todo' = todo \ {i} /\ exit' = "none"
      /\ UNCHANGED <<source, generated, phase, gofile, sound>>
      /\ pc' \in {"create", "goformat", "file", "gofmt"}
      /\ Exists(i.kind, i.file) /\ Parses(i.kind, i.file)
      /\ i.kind = "source" /\ source[i.file].structs # {} => pc' = "create"
      /\ phase = "env" => i = SourceItem(gofile)
  BY AfterFileGoes DEF ParseFile, NextFile, files, tool, SourceItem, RunInv
<1>2. CASE ~sound
  BY <1>1, <1>2 DEF SoundInv
<1>3. CASE sound
  <2>1. SoundRun
    BY <1>1, <1>3 DEF SoundInv
  <2>2. (\A f \in File : Fine(f))'
    BY <1>1, <2>1 DEF SoundRun, Fine, Rewriting
  <2>3. (\A j \in todo : Exists(j.kind, j.file))' /\ (gofile # NoFile => source[gofile].state # "gone")'
    BY <1>1, <2>1 DEF SoundRun, Exists
  <2>4. (\A f \in File : Bad(f) => Repaired(f))'
    <3> SUFFICES ASSUME NEW f \in File, Bad(f) PROVE Repaired(f)'
      BY <1>1 DEF Bad
    <3>1. /\ source[f].state = "good" /\ source[f].structs # {}
          /\ phase = "args" => SourceItem(f) \in todo
          /\ phase = "env" => gofile = f
      BY <1>1, <2>1 DEF SoundRun, Repaired
    <3>2. CASE i = SourceItem(f)
      BY <1>1, <3>1, <3>2 DEF Repaired, SourceItem
    <3>3. CASE i # SourceItem(f)
      BY <1>1, <3>1, <3>3 DEF Repaired
    <3> QED  BY <3>2, <3>3
  <2>5. Exists(cur.kind, cur.file)' /\ Parses(cur.kind, cur.file)'
    BY <1>1 DEF Exists, Parses, IsGo, Content
  <2> QED  BY <1>1, <2>2, <2>3, <2>4, <2>5 DEF SoundInv, SoundRun
<1> QED  BY <1>2, <1>3

\* What is parsed in a run over a sound directory parses.
LEMMA SoundParses ==
    ASSUME TypeInv, SoundRun, NEW i \in Items, NextFile(i)
    PROVE  /\ Exists(i.kind, i.file) /\ Parses(i.kind, i.file)
           /\ i.kind = "source" => source[i.file].state = "good"
<1>1. /\ pc = "file" /\ i.file \in File /\ i.kind \in {"source", "generated"}
      /\ source \in [File -> Sources] /\ generated \in [File -> Generated] /\ NoFile \notin File
  BY GeneratorAssumption DEF NextFile, TypeInv, TypeOK, Items
<1>2. Exists(i.kind, i.file)
  <2>1. CASE phase = "args" /\ i \in todo
    BY <2>1 DEF SoundRun
  <2>2. CASE phase = "env" /\ i = [kind |-> "source", file |-> gofile]
    BY <1>1, <2>2 DEF SoundRun, Exists
  <2> QED  BY <2>1, <2>2 DEF NextFile
<1>3. CASE i.kind = "source"
  BY <1>1, <1>2, <1>3 DEF SoundRun, Fine, Rewriting, Exists, Parses, IsGo, Content
<1>4. CASE i.kind = "generated"
  <2>1. ~Bad(i.file)
    <3>1. phase = "args" /\ SourceItem(i.file) \notin todo
      BY <1>4 DEF NextFile, SourceItem
    <3> QED  BY <1>1, <3>1 DEF SoundRun, Repaired
  <2>2. generated[i.file].part \in {"open", "whole"}
    BY <1>1, <1>2, <1>4, <2>1 DEF Exists, Bad, Generated
  <2> QED  BY <1>2, <1>4, <2>2 DEF Parses, IsGo, Content
<1> QED  BY <1>1, <1>3, <1>4, <1>2

\* Steps of processFile: the file they write is under repair.
LEMMA SoundWrite ==
    ASSUME TypeInv, RunInv, SoundInv, pc \in {"create", "write"}, pc' = "write",
           UNCHANGED <<source, phase, gofile, todo, cur, exit, sound>>,
           generated'[cur.file].part # "absent",
           \A f \in File : f # cur.file => generated'[f] = generated[f]
    PROVE  SoundInv'
<1>1. exit = "none" /\ cur.kind = "source" /\ cur \in Items
  BY DEF RunInv, TypeInv, TypeOK
<1>2. CASE ~sound
  BY <1>1, <1>2 DEF SoundInv
<1>3. CASE sound
  <2>1. SoundRun
    BY <1>3 DEF SoundInv
  <2>2. (\A f \in File : Fine(f))'
    BY <2>1 DEF SoundRun, Fine, Rewriting
  <2>3. ASSUME NEW i \in Items, Exists(i.kind, i.file) PROVE Exists(i.kind, i.file)'
    BY <2>3 DEF Exists, Items
  <2>4. (\A i \in todo : Exists(i.kind, i.file))' /\ Exists(cur.kind, cur.file)'
    BY <1>1, <2>1, <2>3 DEF SoundRun, TypeInv, TypeOK
  <2>5. (\A f \in File : Bad(f) => Repaired(f))'
    BY <2>1 DEF SoundRun, Bad, Repaired
  <2> QED  BY <1>1, <1>3, <2>1, <2>2, <2>4, <2>5 DEF SoundInv, SoundRun
<1> QED  BY <1>2, <1>3

\* goformat truncates a file that parses, and holds what was in it.
LEMMA SoundTruncate ==
    ASSUME TypeInv, RunInv, SoundInv, GoformatTruncate
    PROVE  SoundInv'
<1>1. /\ pc = "format" /\ pc' = "rewrite" /\ exit = "none"
      /\ UNCHANGED <<phase, gofile, buffer, todo, cur, exit, sound>>
  BY DEF GoformatTruncate, RunInv, tool, hist
<1>2. CASE ~sound
  BY <1>1, <1>2 DEF SoundInv
<1>3. CASE sound
  <2>0. SoundRun /\ cur \in Items /\ cur \notin todo /\ todo \subseteq Items
        /\ source \in [File -> Sources] /\ generated \in [File -> Generated]
        /\ Exists(cur.kind, cur.file) /\ Parses(cur.kind, cur.file)
        /\ buffer = Content(cur.kind, cur.file)
    BY <1>1, <1>3 DEF SoundInv, SoundRun, RunInv, TypeInv, TypeOK
  <2>1. /\ \A f \in File : Fine(f)
        /\ \A i \in todo : Exists(i.kind, i.file)
        /\ gofile # NoFile => source[gofile].state # "gone"
    BY <2>0 DEF SoundRun
  <2>2. \A f \in File : Bad(f) =>
           /\ phase = "args" /\ SourceItem(f) \in todo /\ cur # SourceItem(f)
           /\ source[f].state = "good" /\ source[f].structs # {}
    BY <1>1, <2>0, NothingBad DEF SoundRun, Repaired
  <2>3. CASE cur.kind = "source"
    <3>1. /\ buffer' = source[cur.file] /\ generated' = generated
          /\ source'[cur.file].state = "lost"
          /\ \A f \in File : f # cur.file => source'[f] = source[f]
      BY <1>1, <2>0, <2>3 DEF GoformatTruncate, Items, Content
    <3>2. source[cur.file].state = "good"
      BY <1>1, <2>0, <2>1, <2>3 DEF Items, Fine, Rewriting, Parses, IsGo, Content
    <3>3. cur = SourceItem(cur.file) /\ cur.file \in File
      BY <2>0, <2>3 DEF Items, SourceItem
    <3>4. \A f \in File : Fine(f)'
      BY <1>1, <2>1, <3>1, <3>2, <3>3 DEF Fine, Rewriting, SourceItem
    <3>5. \A i \in Items : Exists(i.kind, i.file) => Exists(i.kind, i.file)'
      BY <3>1 DEF Exists, Items
    <3>6. gofile' # NoFile => source'[gofile'].state # "gone"
      BY <1>1, <2>1, <3>1, <3>3 DEF TypeInv, TypeOK
    <3>7. \A f \in File : Bad(f)' => Repaired(f)'
      BY <1>1, <2>2, <3>1, <3>3 DEF Bad, Repaired
    <3> QED  BY <1>1, <1>3, <2>0, <2>1, <2>3, <3>4, <3>5, <3>6, <3>7 DEF SoundInv, SoundRun
  <2>4. CASE cur.kind # "source"
    <3>0. cur.kind = "generated" /\ cur.file \in File /\ cur = [kind |-> "generated", file |-> cur.file]
      BY <2>0, <2>4 DEF Items
    <3>1. /\ buffer' = generated[cur.file] /\ source' = source
          /\ generated'[cur.file] = Written("empty", {})
          /\ \A f \in File : f # cur.file => generated'[f] = generated[f]
      BY <1>1, <2>0, <2>4, PutFile DEF GoformatTruncate, Content
    <3>2. buffer'.part \in {"open", "whole"}
      BY <2>0, <3>0, <3>1 DEF Parses, IsGo, Content
    <3>3. \A f \in File : Fine(f)'
      BY <1>1, <2>1, <3>0, <3>1 DEF Fine, Rewriting
    <3>4. \A i \in Items : Exists(i.kind, i.file) => Exists(i.kind, i.file)'
      BY <3>1 DEF Exists, Items, Written
    <3>5. \A f \in File : Bad(f)' => Repaired(f)'
      BY <1>1, <2>2, <3>0, <3>1 DEF Bad, Repaired
    <3> QED  BY <1>1, <1>3, <2>0, <2>1, <3>0, <3>1, <3>2, <3>3, <3>4, <3>5 DEF SoundInv, SoundRun
  <2> QED  BY <2>3, <2>4
<1> QED  BY <1>2, <1>3

\* goformat writes what it holds, and no file is left that does not parse.
LEMMA SoundRewrite ==
    ASSUME TypeInv, RunInv, SoundInv, GoformatWrite
    PROVE  SoundInv'
<1>1. /\ pc = "rewrite" /\ pc' \in {"file", "gofmt"} /\ exit = "none"
      /\ pc' = "gofmt" => todo = {}
      /\ pc' = "file" => todo # {}
      /\ UNCHANGED <<phase, gofile, todo, cur, exit, sound>>
  BY AfterFormatGoes DEF GoformatWrite, RunInv, hist, AfterFormat, tool
<1>2. CASE ~sound
  BY <1>1, <1>2 DEF SoundInv
<1>3. CASE sound
  <2>0. SoundRun /\ cur \in Items /\ cur \notin todo /\ todo \subseteq Items
        /\ source \in [File -> Sources] /\ generated \in [File -> Generated]
        /\ phase \in {"args", "env"}
        /\ buffer \in IF cur.kind = "source" THEN Sources ELSE Generated
    BY <1>1, <1>3 DEF SoundInv, RunInv, TypeInv, TypeOK
  <2>1. /\ \A f \in File : Fine(f)
        /\ \A i \in todo : Exists(i.kind, i.file)
        /\ gofile # NoFile => source[gofile].state # "gone"
    BY <2>0 DEF SoundRun
  <2>2. \A f \in File : Bad(f) =>
           \/ cur = [kind |-> "generated", file |-> f]
           \/ /\ phase = "args" /\ SourceItem(f) \in todo /\ cur # SourceItem(f)
              /\ source[f].state = "good" /\ source[f].structs # {}
    BY <1>1, <2>0 DEF SoundRun, Repaired
  <2>3. CASE cur.kind = "source"
    <3>0. cur = SourceItem(cur.file) /\ cur.file \in File
      BY <2>0, <2>3 DEF Items, SourceItem
    <3>1. /\ generated' = generated
          /\ source'[cur.file] = [buffer EXCEPT !.tidy = TRUE]
          /\ \A f \in File : f # cur.file => source'[f] = source[f]
      BY <2>0, <2>3, <3>0 DEF GoformatWrite
    <3>2. source'[cur.file].state = "good"
      BY <1>1, <2>0, <2>1, <2>3, <3>0, <3>1 DEF Fine, Rewriting, SourceItem, Sources
    <3>3. ASSUME NEW f \in File PROVE Fine(f)'
      <4>1. ~Rewriting(f)'
        BY <1>1 DEF Rewriting
      <4>2. CASE f = cur.file
        BY <3>2, <4>1, <4>2 DEF Fine
      <4>3. CASE f # cur.file
        <5>1. ~Rewriting(f)
          BY <3>0, <4>3 DEF Rewriting, SourceItem
        <5> QED  BY <2>1, <3>1, <4>1, <4>3, <5>1 DEF Fine
      <4> QED  BY <4>2, <4>3
    <3>4. \A i \in Items : Exists(i.kind, i.file) => Exists(i.kind, i.file)'
      BY <3>1, <3>2 DEF Exists, Items
    <3>5. gofile' # NoFile => source'[gofile'].state # "gone"
      BY <1>1, <2>1, <3>1, <3>2 DEF TypeInv, TypeOK
    <3>6. \A f \in File : Bad(f)' => Repaired(f)'
      BY <1>1, <2>2, <2>3, <3>0, <3>1 DEF Bad, Repaired
    <3> QED  BY <1>1, <1>3, <2>0, <2>1, <3>3, <3>4, <3>5, <3>6 DEF SoundInv, SoundRun
  <2>4. CASE cur.kind # "source"
    <3>0. cur.kind = "generated" /\ cur.file \in File /\ cur = [kind |-> "generated", file |-> cur.file]
      BY <2>0, <2>4 DEF Items
    <3>1. /\ source' = source
          /\ generated'[cur.file] = [buffer EXCEPT !.tidy = TRUE]
          /\ \A f \in File : f # cur.file => generated'[f] = generated[f]
      BY <2>4, PutFile DEF GoformatWrite
    <3>2. generated'[cur.file].part \in {"open", "whole"}
      BY <1>1, <2>0, <2>4, <3>0, <3>1 DEF SoundRun, Generated
    <3>3. \A f \in File : Fine(f)'
      BY <1>1, <2>1, <3>0, <3>1 DEF Fine, Rewriting
    <3>4. \A i \in Items : Exists(i.kind, i.file) => Exists(i.kind, i.file)'
      BY <3>1, <3>2 DEF Exists, Items
    <3>5. ASSUME NEW f \in File, Bad(f)' PROVE Repaired(f)'
      <4>1. f # cur.file
        BY <3>2, <3>5 DEF Bad
      <4>2. Bad(f) /\ cur # [kind |-> "generated", file |-> f]
        BY <3>1, <3>5, <4>1 DEF Bad
      <4>3. /\ phase = "args" /\ SourceItem(f) \in todo
            /\ source[f].state = "good" /\ source[f].structs # {}
        BY <2>2, <4>2
      <4> QED  BY <1>1, <3>1, <4>3 DEF Repaired, SourceItem
    <3> QED  BY <1>1, <1>3, <2>0, <2>1, <3>1, <3>3, <3>4, <3>5 DEF SoundInv, SoundRun
  <2> QED  BY <2>3, <2>4
<1> QED  BY <1>2, <1>3

\* gofmt formats a directory in which every file parses.
LEMMA SoundGofmt ==
    ASSUME TypeInv, RunInv, SoundInv, gofmt
    PROVE  SoundInv'
<1>1. /\ pc = "gofmt" /\ exit = "none" /\ AfterPackage /\ todo = {}
      /\ UNCHANGED <<gofile, todo, cur, sound>>
      /\ Formatted \/ UNCHANGED <<source, generated>>
  BY DEF gofmt, RunInv, hist, files
<1>2. \A f \in File : source'[f].state = source[f].state /\ generated'[f].part = generated[f].part
  BY <1>1, FormattedKeeps
<1>3. CASE ~sound \/ pc' = "idle"
  BY <1>1, <1>3 DEF SoundInv, AfterPackage
<1>4. CASE sound /\ pc' # "idle"
  <2>1. SoundRun /\ pc' = "file" /\ exit' = "none"
    BY <1>1, <1>4 DEF SoundInv, AfterPackage
  <2>2. \A f \in File : ~Bad(f)
    BY <1>1, <2>1, NothingBad
  <2>3. \A f \in File : Fine(f)'
    BY <1>1, <1>2, <2>1 DEF SoundRun, Fine, Rewriting
  <2>4. gofile' # NoFile => source'[gofile'].state # "gone"
    BY <1>1, <1>2, <2>1 DEF SoundRun, TypeInv, TypeOK
  <2> QED  BY <1>1, <1>2, <2>1, <2>2, <2>3, <2>4 DEF SoundInv, SoundRun, Bad
<1> QED  BY <1>3, <1>4

\* Runs that start on a sound directory fail for input and output only.
LEMMA SoundFails ==
    ASSUME TypeInv, RunInv, SoundInv,
           gofmtFails \/ GoformatFails \/ WriteFails \/ \E i \in Items : ParseFails(i)
    PROVE  SoundInv'
<1>1. pc # "idle" /\ pc' = "idle" /\ UNCHANGED sound /\ exit = "none"
  BY DEF gofmtFails, GoformatFails, WriteFails, ParseFails, NextFile, Fatalf, RunInv
<1>2. sound => io'
  <2> SUFFICES ASSUME sound PROVE io'
    OBVIOUS
  <2>1. SoundRun
    BY <1>1 DEF SoundInv
  <2>2. CASE gofmtFails
    <3>1. ~Unparsable
      <4>1. pc = "gofmt"
        BY <2>2 DEF gofmtFails
      <4>2. \A f \in File : ~Bad(f)
        BY <2>1, <4>1, NothingBad
      <4>3. \A f \in File : source[f].state \in {"good", "gone"}
        BY <2>1, <4>1 DEF SoundRun, Fine, Rewriting
      <4> QED  BY <4>2, <4>3 DEF Unparsable, Bad, Exists, Parses, IsGo, Content, TypeInv, TypeOK, Generated, GoFiles, Items
    <3> QED  BY <2>2, <3>1 DEF gofmtFails, Fatalf
  <2>3. CASE GoformatFails
    BY <2>1, <2>3 DEF GoformatFails, Fatalf, SoundRun, Parses
  <2>4. CASE WriteFails
    BY <2>4 DEF WriteFails, Fatalf
  <2>5. ASSUME NEW i \in Items, ParseFails(i) PROVE io'
    BY <2>1, <2>5, SoundParses DEF ParseFails, Fatalf
  <2> QED  BY <2>2, <2>3, <2>4, <2>5
<1> QED  BY <1>1, <1>2 DEF SoundInv

LEMMA SoundStep == TypeInv /\ RunInv /\ SoundInv /\ [Next]_vars => SoundInv'
<1> SUFFICES ASSUME TypeInv, RunInv, SoundInv, [Next]_vars PROVE SoundInv'
  OBVIOUS
<1>0. cur \in Items /\ cur.file \in File
  BY DEF TypeInv, TypeOK, Items
<1>1. CASE UNCHANGED vars
  BY <1>1 DEF vars, files, tool, hist, SoundInv, SoundRun, Fine, Rewriting, Exists, Parses, IsGo,
              Content, Bad, Repaired
<1>2. CASE Edit \/ SaveDuringGofmt
  <2>1. sound' = FALSE
    BY <1>2 DEF Edit, SaveDuringGofmt
  <2> QED  BY <2>1 DEF SoundInv
<1>3. CASE Start
  BY <1>3, SoundStart
<1>4. CASE Kill
  <2>1. pc' = "idle" /\ exit' = "killed"
    BY <1>4 DEF Kill
  <2> QED  BY <2>1 DEF SoundInv
<1>5. ASSUME NEW i \in Items, ParseFile(i) PROVE SoundInv'
  BY <1>5, SoundParse
<1>6. CASE gofmtFails \/ GoformatFails \/ WriteFails \/ \E i \in Items : ParseFails(i)
  BY <1>6, SoundFails
<1>7. CASE Create \/ WriteProlog \/ WriteStruct \/ WriteInit
  <2>1. /\ pc \in {"create", "write"} /\ pc' = "write"
        /\ UNCHANGED <<source, phase, gofile, todo, cur, exit, sound>>
        /\ \E p \in {"empty", "open", "whole"} : \E g : Put(Written(p, g))
    BY <1>7 DEF Create, WriteProlog, WriteStruct, WriteInit, tool, hist
  <2>2. PICK p \in {"empty", "open", "whole"} : \E g : Put(Written(p, g))
    BY <2>1
  <2>3. PICK g : Put(Written(p, g))
    BY <2>2
  <2>4. /\ generated'[cur.file] = Written(p, g)
        /\ \A f \in File : f # cur.file => generated'[f] = generated[f]
    BY <2>3, PutFile
  <2>5. generated'[cur.file].part # "absent"
    BY <2>4 DEF Written
  <2> QED  BY <2>1, <2>4, <2>5, SoundWrite
<1>8. CASE Close
  <2>1. /\ pc = "write" /\ pc' \in {"goformat", "file", "gofmt"} /\ todo' = todo
        /\ UNCHANGED <<source, generated, phase, gofile, cur, exit, sound>>
        /\ generated[cur.file].part = "whole"
    BY <1>8, AfterFileGoes DEF Close, files, tool, hist, Out
  <2>2. ~Bad(cur.file)
    BY <2>1 DEF Bad
  <2>3. sound /\ SoundRun => Parses(cur.kind, cur.file)'
    BY <1>0, <2>1 DEF SoundRun, RunInv, Fine, Rewriting, Exists, Parses, IsGo, Content
  <2>4. CASE sound
    <3>1. SoundRun
      BY <2>1, <2>4 DEF SoundInv
    <3>2. Parses(cur.kind, cur.file)'
      BY <2>3, <2>4, <3>1
    <3>3. /\ \A f \in File : Bad(f) /\ pc \in {"create", "write"} /\ cur.file = f =>
                pc' \in {"create", "write"}
          /\ phase = "env" /\ pc = "file" => pc' = "file"
      BY <2>1, <2>2
    <3>4. \A f \in File : generated'[f].part = generated[f].part
      BY <2>1
    <3> QED  BY <2>1, <3>2, <3>3, <3>4, SoundFrame
  <2>5. CASE ~sound
    BY <2>1, <2>5 DEF SoundInv, RunInv
  <2> QED  BY <2>4, <2>5
<1>9. CASE GoformatSame
  <2>1. /\ pc = "format" /\ pc' \in {"file", "gofmt"}
        /\ UNCHANGED <<source, generated, phase, gofile, todo, cur, exit, sound>>
    BY <1>9, AfterFormatGoes DEF GoformatSame, files, tool, hist
  <2> QED  BY <2>1, SoundFrame
<1>13. CASE GoformatRead
  <2>1. /\ pc = "goformat" /\ pc' = "format" /\ buffer' = Content(cur.kind, cur.file)
        /\ UNCHANGED <<source, generated, phase, gofile, todo, cur, exit, sound>>
    BY <1>13 DEF GoformatRead, files, hist
  <2>2. Content(cur.kind, cur.file)' = Content(cur.kind, cur.file)
    BY <2>1 DEF Content
  <2>3. sound /\ SoundRun => Parses(cur.kind, cur.file)'
    BY <2>1, <2>2 DEF SoundRun, Parses, IsGo
  <2> QED  BY <2>1, <2>2, <2>3, SoundFrame
<1>10. CASE GoformatTruncate
  BY <1>10, SoundTruncate
<1>11. CASE GoformatWrite
  BY <1>11, SoundRewrite
<1>12. CASE gofmt
  BY <1>12, SoundGofmt
<1> QED
  BY <1>1, <1>2, <1>3, <1>4, <1>5, <1>6, <1>7, <1>8, <1>9, <1>10, <1>11, <1>12, <1>13
  DEF Next, processFile, goformat

-----------------------------------------------------------------------------
\* Theorems

IInv == TypeInv /\ RunInv /\ HandInv /\ UnparsedInv /\ MadeInv /\ SoundInv

\* The inductive invariant: what is known of the files at each place of a run.
THEOREM GeneratorInvariant == Spec => []IInv
<1>1. Init => IInv
  BY TypeInit, RunInit, HandInit, UnparsedInit, MadeInit, SoundInit DEF IInv
<1>2. IInv /\ [Next]_vars => IInv'
  BY TypeStep, RunStep, HandStep, UnparsedStep, MadeStep, SoundStep DEF IInv
<1> QED  BY <1>1, <1>2, PTL DEF Spec

\* Types, and a file being written (main.go:56-104) holds only structs that were
\* found in its source.
THEOREM TypeCorrect == Spec => []TypeOK
<1>1. IInv => TypeOK
  BY DEF IInv, TypeInv
<1> QED  BY <1>1, GeneratorInvariant, PTL

\* The exit code of main (main.go:171-199) is earned: every source was parsed and
\* every one with structs has its complete generated file, for any package and
\* whatever earlier runs and the programmer did to it.
THEOREM OkMeansGeneratedCorrect == Spec => []OkMeansGenerated
<1>1. IInv => OkMeansGenerated
  <2> SUFFICES ASSUME IInv, exit = "ok"
               PROVE  unparsed = {} /\ \A f \in File : found[f] # {} => Complete(f, found[f])
    BY DEF OkMeansGenerated
  <2>1. pc = "idle" /\ ~io
    BY DEF IInv, RunInv
  <2>2. unparsed = {}
    BY <2>1 DEF IInv, UnparsedInv
  <2>3. ASSUME NEW f \in File, found[f] # {} PROVE Complete(f, found[f])
    <3>1. made[f] = found[f]
      BY <2>1, <2>3 DEF IInv, MadeInv
    <3> QED  BY <2>1, <2>3, <3>1 DEF IInv, MadeInv, Unharmed, Held
  <2> QED  BY <2>2, <2>3
<1> QED  BY <1>1, GeneratorInvariant, PTL

\* processFile (main.go:32-104) leaves a generated file untouched or complete,
\* unless the command is killed or a write fails.
THEOREM WholeOrUntouchedCorrect == Spec => []WholeOrUntouched
<1>1. IInv => WholeOrUntouched
  BY DEF IInv, RunInv, MadeInv, Unharmed, Held, WholeOrUntouched
<1> QED  BY <1>1, GeneratorInvariant, PTL

\* A run over a sound directory writes anew what a killed run has left before it
\* is read as a file of the package (main.go:172), for any number of files.
THEOREM RerunRepairsCorrect == Spec => []RerunRepairs
<1>1. IInv => RerunRepairs
  BY DEF IInv, SoundInv, RerunRepairs
<1> QED  BY <1>1, GeneratorInvariant, PTL

\* Source files keep what the programmer wrote through any run, unless they are
\* saved after goformat (main.go:104-117) or gofmt has read them and before it writes
\* them, or goformat is stopped between truncating one and writing it.
THEOREM HandWrittenKeptCorrect == Spec => []HandWrittenKept
<1>1. IInv => HandWrittenKept
  BY DEF IInv, HandInv, HandWrittenKept
<1> QED  BY <1>1, GeneratorInvariant, PTL
=============================================================================
