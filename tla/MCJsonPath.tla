------------------------------ MODULE MCJsonPath ------------------------------
(* Two documents: an object whose keys are those that escapes and indexes can    *)
(* confuse, and an array long enough for an index of two digits that holds        *)
(* numbers at the edges of the (scaled) widths.                                  *)
EXTENDS JsonPath, TLC

Key(k, node) == k :> node

Keyed ==
    Object(Key(<<"~">>, Integer(1)) @@ Key(<<"/">>, Integer(2))
        @@ Key(<<"~", "1">>, Integer(3)) @@ Key(<<"~", "0">>, Integer(4))
        @@ Key(<<>>, Object(Key(<<>>, Text(<<"a">>)) @@ Key(<<"0", "1">>, Object(<<>>))))
        @@ Key(<<"0">>, Array(<<Bool(TRUE), Null, Array(<<>>)>>))
        @@ Key(<<"a", "/", "~", "0", "a">>, Bool(FALSE))
        @@ Key(<<"-">>, Null))

\* Doubles of four bits, Scale = 32 points to 1: an eighth apart up to 2, a quarter up to 4,
\* a half up to 8, then 1, 2, 4 and 8.  Between them are the literals that are no doubles.
MCDoubles ==
    UNION {{gap * k : k \in -16..16} : gap \in {4, 8, 16, 32, 64, 128, 256}}

\* Integers on both sides of each width.  Decimals on both sides of a long's: exact, a
\* point off (which a double is not), midway between two doubles, and halves; and the
\* smallest of both signs.
Listed ==
    Array(<<Integer(0), Integer(LongMax), Integer(LongMax + 1), Integer(-LongMax - 1),
            Integer(-LongMax - 2), Integer(Int64Max + 1), Integer(UInt64Max),
            Integer(UInt64Max + 1), Integer(-Int64Max - 2),
            Decimal(1), Decimal(-1), Decimal(Scale - 1), Decimal(-Scale),
            Decimal(Scale * LongMax), Decimal(Scale * LongMax + 1), Decimal(Scale * LongMax + 4),
            Decimal(Scale * LongMax + 12), Decimal(Scale * LongMax + 16),
            Decimal(Scale * (LongMax + 1) - 1), Decimal(-Scale * (LongMax + 1) - 1),
            Decimal(-Scale * (LongMax + 1) - 16), Decimal(2 * Scale * UInt64Max - 33)>>)

MCDocuments == {Keyed, Listed}
MCValues == {n.node : n \in Nodes(Keyed) \cup Nodes(Listed)}
MCCharacters == {"/", "~", "0", "1", "-", "a"}
MCAlphabet == MCCharacters \cup ToSet(Digits)
=============================================================================
