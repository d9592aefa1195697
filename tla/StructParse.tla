----------------------------- MODULE StructParse -----------------------------
(***************************************************************************)
(* The two parsers of a struct (package parse) and the check that binds    *)
(* them: the reform command parses the SOURCE of a struct (file.go) and    *)
(* generates code that embeds the StructInfo it found; when the program    *)
(* starts, AssertUpToDate parses the struct again, through REFLECTION      *)
(* (runtime.go), and panics unless the two agree.  In between the          *)
(* programmer edits the struct.                                            *)
(*                                                                         *)
(* A struct is a table name and a sequence of field declarations           *)
(*   [names, tag, type]: names is empty for an embedded field, and has two *)
(*       elements for a declaration like "A, B int";                       *)
(*   tag: [column, label], the label being what follows the comma: "" and  *)
(*       "pk" are the good ones, "none" stands for no tag, "" or "-";      *)
(*   type: [pre, base], pre the sequence of pointers, slices and arrays    *)
(*       before the name of the type, each as the source writes it and as  *)
(*       reflection does (the length of an array is an expression there,   *)
(*       like "[sha256.Size]", and its value here, "[32]"); base is the    *)
(*       name as the source writes it, as reflection does, qualified with  *)
(*       its package and bare, and whether it is local, that is declared   *)
(*       in the struct's own package.                                      *)
(***************************************************************************)
EXTENDS Naturals, SequencesExt

CONSTANTS
    Decl,        \* field declarations the programmer may write
    Table,       \* table names of the magic comment
    Unexported,  \* field names that are not exported
    NotGenerated,\* no generated file yet
    MaxFields    \* bound: declarations in a struct

Types        == [pre : Seq([source : STRING, reflected : STRING]),
                 base : [source : STRING, qualified : STRING, bare : STRING, local : BOOLEAN]]
Declarations == [names : Seq(STRING), tag : [column : STRING, label : STRING], type : Types]

ASSUME DeclAssumption == Decl \subseteq Declarations
ASSUME MaxFieldsAssumption == MaxFields \in Nat

VARIABLES
    struct,      \* the struct in the source file: [table, decls]
    generated,   \* StructInfo in the generated file: [table, fields, pk]
    fresh,       \* history: the file was generated from the struct as it is
    program      \* "built", or how its start went: "up" or "panic"

structVars == <<struct, generated, fresh, program>>

-----------------------------------------------------------------------------
\* Types as text

Written(type)   == [i \in 1 .. Len(type.pre) |-> type.pre[i].source]
Reflected(type) == [i \in 1 .. Len(type.pre) |-> type.pre[i].reflected]

\* Mutant: the alias byte is not known.
fileGoTypeNoByte(type) == Append(Written(type), type.base.source)

\* fileGoType: as written, lengths of arrays included, but byte is uint8.
fileGoType(type) ==
    Append(Written(type), IF type.base.source = "byte" THEN "uint8" ELSE type.base.source)

Stars(type) == {i \in 0 .. Len(type.pre) : \A j \in 1 .. i : type.pre[j].reflected = "*"}

\* objectGoType: beyond the pointers the package is dropped from a type of the
\* struct's own package; a slice or an array belongs to no package.
objectGoType(type) ==
    Append(Reflected(type), IF type.base.local /\ Len(type.pre) \in Stars(type)
                            THEN type.base.bare ELSE type.base.qualified)

\* Types that both parsers write alike: of the struct's own package if no slice
\* or array is in front, of others under the name of their package; not rune;
\* every length of an array as a decimal number.
Plain(type) ==
    /\ \A i \in 1 .. Len(type.pre) : type.pre[i].source = type.pre[i].reflected
    /\ IF type.base.local
       THEN Len(type.pre) \in Stars(type) /\ type.base.source # "byte"
            /\ type.base.source = type.base.bare
       ELSE type.base.qualified =
                IF type.base.source = "byte" THEN "uint8" ELSE type.base.source

-----------------------------------------------------------------------------
\* Fields

Tagged(decl) == decl.tag.label # "none"

\* parseStructFieldTag
parseStructFieldTag(tag) ==
    IF tag.label \in {"", "pk"}
    THEN [column |-> tag.column, isPK |-> tag.label = "pk"]
    ELSE [column |-> "", isPK |-> FALSE]

\* A primary key is the only one, and has no "*" or "[" before its name.
BadPK(text, pk) == Len(text) > 1 \/ pk # 0

Start  == [err |-> "nil", fields |-> << >>, pk |-> 0]
Err(e) == [err |-> e, fields |-> << >>, pk |-> 0]

\* One field with its text of the type, as both parsers treat it.
AddField(res, name, tag, text) ==
    LET t == parseStructFieldTag(tag) IN
    CASE name \in Unexported -> Err("unexported")
      [] name \notin Unexported /\ t.column = "" -> Err("badTag")
      [] name \notin Unexported /\ t.column # "" /\ t.isPK /\ BadPK(text, res.pk) -> Err("badPK")
      [] OTHER ->
           [err    |-> "nil",
            fields |-> Append(res.fields, [name |-> name, type |-> text, column |-> t.column]),
            pk     |-> IF t.isPK THEN Len(res.fields) + 1 ELSE res.pk]

\* parseStructTypeSpec, for one declaration: two names are a panic.
FileField(res, decl) ==
    CASE res.err # "nil" \/ ~Tagged(decl) -> res
      [] res.err = "nil" /\ Tagged(decl) /\ Len(decl.names) = 0 -> Err("anonymous")
      [] res.err = "nil" /\ Tagged(decl) /\ Len(decl.names) = 1 ->
           AddField(res, decl.names[1], decl.tag, fileGoType(decl.type))
      [] OTHER -> Err("panic")

\* Object, for one declaration: reflection sees a field for every name.
ObjectField(res, decl) ==
    LET Add(r, name) == IF r.err # "nil" THEN r
                        ELSE AddField(r, name, decl.tag, objectGoType(decl.type)) IN
    CASE res.err # "nil" \/ ~Tagged(decl) -> res
      [] res.err = "nil" /\ Tagged(decl) /\ Len(decl.names) = 0 -> Err("anonymous")
      [] OTHER -> FoldLeft(Add, res, decl.names)

\* Mutant: two fields may share a column.
checkFieldsNoDupes(res) ==
    IF res.err = "nil" /\ res.fields = << >> THEN Err("noFields") ELSE res

\* checkFields: at least one field, and no column twice.
checkFields(res) ==
    CASE res.err = "nil" /\ res.fields = << >> -> Err("noFields")
      [] res.err = "nil" /\ \E i, j \in DOMAIN res.fields :
                               i # j /\ res.fields[i].column = res.fields[j].column
           -> Err("duplicate")
      [] OTHER -> res

\* The two parsers.
File(decls)   == checkFields(FoldLeft(FileField, Start, decls))
Object(decls) == checkFields(FoldLeft(ObjectField, Start, decls))

-----------------------------------------------------------------------------

\* Mutant: the fields are compared as far as the first list goes.
structInfoInSyncPrefix(si, res) ==
    /\ si.pk = res.pk
    /\ \A i \in DOMAIN si.fields : i \in DOMAIN res.fields /\ si.fields[i] = res.fields[i]

\* structInfoInSync of the generated information and what Object finds, which
\* is given the schema and the name of the former.
structInfoInSync(si, res) ==
    /\ si.pk = res.pk
    /\ Len(si.fields) = Len(res.fields)
    /\ \A i \in DOMAIN si.fields : si.fields[i] = res.fields[i]

Names(decls) ==
    UNION {{decls[i].names[j] : j \in DOMAIN decls[i].names} : i \in DOMAIN decls}

\* Generated methods name the fields of the struct: without them the program
\* does not compile.
Compiles ==
    /\ generated # NotGenerated
    /\ \A i \in DOMAIN generated.fields : generated.fields[i].name \in Names(struct.decls)

\* Go does not allow two fields of one name.
Legal(decls) ==
    \A i, j \in DOMAIN decls : i # j =>
        \A m \in DOMAIN decls[i].names, n \in DOMAIN decls[j].names :
            decls[i].names[m] # decls[j].names[n]

StructInit ==
    /\ \E t \in Table : struct = [table |-> t, decls |-> << >>]
    /\ generated = NotGenerated /\ fresh = FALSE /\ program = "built"

\* The programmer edits the struct.
Edit ==
    /\ \/ \E d \in Decl :
             /\ Len(struct.decls) < MaxFields
             /\ struct' = [struct EXCEPT !.decls = Append(@, d)]
       \/ \E i \in DOMAIN struct.decls : struct' = [struct EXCEPT !.decls = RemoveAt(@, i)]
       \/ \E i \in DOMAIN struct.decls, d \in Decl : struct' = [struct EXCEPT !.decls[i] = d]
       \/ \E t \in Table : struct' = [struct EXCEPT !.table = t]
    /\ Legal(struct'.decls) /\ struct' # struct
    /\ fresh' = FALSE /\ program' = "built"
    /\ UNCHANGED generated

\* The reform command.  If the file cannot be parsed nothing is written, and
\* an older generated file stays.
processFile ==
    LET res == File(struct.decls) IN
    /\ res.err = "nil"
    /\ generated' = [table |-> struct.table, fields |-> res.fields, pk |-> res.pk]
    /\ fresh' = TRUE /\ program' = "built"
    /\ UNCHANGED struct

\* The program starts: its generated init functions call AssertUpToDate.
AssertUpToDate ==
    LET res == Object(struct.decls) IN
    /\ program = "built" /\ Compiles
    /\ program' = IF res.err = "nil" /\ structInfoInSync(generated, res)
                  THEN "up" ELSE "panic"
    /\ UNCHANGED <<struct, generated, fresh>>

StructNext == Edit \/ processFile \/ AssertUpToDate

StructSpec == StructInit /\ [][StructNext]_structVars

-----------------------------------------------------------------------------
\* The generated information is well formed: columns are distinct, and the
\* primary key, if there is one, is the index of a field.
TypeOK ==
    /\ program \in {"built", "up", "panic"} /\ fresh \in BOOLEAN
    /\ Len(struct.decls) <= MaxFields /\ struct.table \in Table
    /\ generated # NotGenerated =>
          /\ generated.table \in Table /\ generated.pk \in 0 .. Len(generated.fields)
          /\ \A i, j \in DOMAIN generated.fields :
                generated.fields[i].column = generated.fields[j].column => i = j

\* "It is used during program initialization to check that generated files are
\* up-to-date" (parse/base.go:131), one direction: no edit of the fields goes
\* unnoticed.  Whatever was changed since the file was generated, a program
\* that starts has the fields, columns, types and primary key that the reform
\* command would generate now.  (Of types that are not plain this is not true:
\* int32 becomes rune, or [4]byte becomes [0x4]byte, which is no change to the
\* program but is one to the generated text.)
StaleFieldsPanic ==
    program = "up" =>
        LET res == File(struct.decls) IN
        res.err = "nil" /\ res.fields = generated.fields /\ res.pk = generated.pk

\* The other direction: a file generated from the struct as it is never makes
\* the program panic.  The parser of the source and the parser of the runtime
\* accept the same structs and write the same types: the plain ones, that is,
\* and not rune, a slice of a type of the same package, a package imported
\* under another name, or an array whose length is not a decimal number.
FreshStarts == fresh => program # "panic"

-----------------------------------------------------------------------------
\* What the documentation says and the code does not do.

\* "AssertUpToDate checks that given StructInfo matches given object"
\* (parse/base.go:130): the table of the magic comment as well.
StaleTablePanics == program = "up" => generated.table = struct.table
=============================================================================
