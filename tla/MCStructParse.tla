---------------------------- MODULE MCStructParse ----------------------------
(***************************************************************************)
(* StructParse for TLC: declarations chosen so that every check of the     *)
(* parsers has something to refuse.                                        *)
(***************************************************************************)
EXTENDS StructParse

Builtin(n)  == [source |-> n, qualified |-> n, bare |-> n, local |-> FALSE]
Byte        == [source |-> "byte", qualified |-> "uint8", bare |-> "uint8", local |-> FALSE]
Rune        == [source |-> "rune", qualified |-> "int32", bare |-> "int32", local |-> FALSE]
Local       == [source |-> "T", qualified |-> "models.T", bare |-> "T", local |-> TRUE]
Time        == [source |-> "time.Time", qualified |-> "time.Time", bare |-> "Time", local |-> FALSE]
\* A type of a package imported under another name.
Renamed     == [source |-> "t.Time", qualified |-> "time.Time", bare |-> "Time", local |-> FALSE]

Star            == [source |-> "*", reflected |-> "*"]
Slice           == [source |-> "[]", reflected |-> "[]"]
Array(length)   == [source |-> length, reflected |-> "[32]"]

Type(pre, base) == [pre |-> pre, base |-> base]

Tag(c, l)       == [column |-> c, label |-> l]
Field(n, t, ty) == [names |-> <<n>>, tag |-> t, type |-> ty]

PlainTypes == {Type(<< >>, Builtin("int32")), Type(<<Slice>>, Byte), Type(<<Array("[32]")>>, Byte),
               Type(<<Star>>, Local), Type(<<Star>>, Time)}

PlainDecl ==
    {Field(n, t, ty) : n \in {"F", "G"}, t \in {Tag("c", ""), Tag("c", "pk")}, ty \in PlainTypes}
    \cup {Field(n, t, Type(<< >>, Byte)) :
              n \in {"F", "G"}, t \in {Tag("d", ""), Tag("d", "omitempty"), Tag("", "none")}}
    \cup {Field("u", Tag("c", ""), Type(<< >>, Byte)),
          [names |-> << >>, tag |-> Tag("c", ""), type |-> Type(<< >>, Local)],
          [names |-> <<"F", "G">>, tag |-> Tag("d", ""), type |-> Type(<< >>, Byte)],
          Field("H", Tag("d", "pk"), Type(<< >>, Local)),
          Field("H", Tag("", ""), Type(<< >>, Byte))}

ASSUME PlainDeclAssumption == \A d \in PlainDecl : Plain(d.type)

OtherDecl ==
    {Field("F", Tag("c", ""), ty) :
        ty \in {Type(<< >>, Rune), Type(<<Slice>>, Local), Type(<< >>, Renamed),
                Type(<<Array("[sha256.Size]")>>, Byte), Type(<<Array("[0x20]")>>, Byte)}}
=============================================================================
