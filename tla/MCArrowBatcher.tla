---------------------------- MODULE MCArrowBatcher ----------------------------
(***************************************************************************)
(* Inputs of ArrowBatcher for TLC: every sequence of two groups, a group   *)
(* being the results that the reader yields for one key (one entry, or its *)
(* chunks), longer ones of the groups that meet in a builder, and at the   *)
(* end perhaps an error.                                                   *)
(***************************************************************************)
EXTENDS ArrowBatcher

CONSTANTS GroupNames,  \* the groups that the keys of pairs are taken from
          LongNames,   \* those of longer inputs
          MaxGroups    \* keys in a longer input

X(size) == [pos |-> 0, size |-> size, fields |-> <<>>, expires |-> FALSE,
            geo |-> FALSE, hll |-> FALSE, kind |-> None]
GeoX == [X(1) EXCEPT !.geo = TRUE]
HllX == [X(4) EXCEPT !.hll = TRUE]
StreamX(fields) == [X(2) EXCEPT !.fields = fields]
FieldX(size, expires) == [X(size) EXCEPT !.expires = expires]
ModuleX(kind, size) == [X(size) EXCEPT !.kind = kind]

\* Elements from a position on.
From(offset, elems) ==
  [i \in DOMAIN elems |-> [elems[i] EXCEPT !.pos = offset + i - 1]]

Whole(value, elems) ==
  [kind |-> "entry", key |-> 0, keyLen |-> 1, value |-> value,
   elems |-> From(0, elems), head |-> 0, length |-> 0, total |-> None,
   offset |-> None]

Chunk(value, elems, total, offset) ==
  [Whole(value, elems) EXCEPT !.elems = From(offset, elems), !.total = total,
                              !.offset = offset]

Group ==
  [string  |-> << Whole("String", <<X(3)>>) >>,
   hll     |-> << Whole("String", <<HllX>>) >>,
   empty   |-> << Whole("List", <<>>) >>,
   list    |-> << Whole("List", <<X(1), X(0)>>) >>,
   chunked |-> << Chunk("List", <<X(1), X(1)>>, 3, 0),
                  Chunk("List", <<X(1)>>, 3, 2) >>,
   set     |-> << Chunk("Set", <<X(1)>>, 2, 0), Chunk("Set", <<X(2)>>, 2, 1) >>,
   zset    |-> << Whole("SortedSet", <<X(1), GeoX>>) >>,
   geo     |-> << Whole("SortedSet", <<GeoX, GeoX>>) >>,
   geopart |-> << Chunk("SortedSet", <<GeoX>>, 2, 0),
                  Chunk("SortedSet", <<X(1)>>, 2, 1) >>,
   hash    |-> << Whole("Hash", <<FieldX(2, TRUE), FieldX(2, FALSE)>>) >>,
   module  |-> << [Whole("Module", <<ModuleX("double", 0), ModuleX("string", 30)>>)
                     EXCEPT !.head = 2] >>,
   ints    |-> << [Whole("Module", <<ModuleX("uint", 0)>>) EXCEPT !.head = 2] >>,
   blank   |-> << [Whole("Module", <<>>) EXCEPT !.head = 2] >>,
   stream  |-> << [Whole("Stream", <<StreamX(<<1, 2>>), StreamX(<<>>)>>)
                     EXCEPT !.length = 2] >>,
   deleted |-> << Whole("Stream", <<>>) >>,
   huge    |-> << Whole("Hash", <<X(60)>>) >>,
   unknown |-> << [kind |-> "unknown"] >>]

Keyed(group, key) ==
  [i \in DOMAIN group |->
     IF group[i].kind = "entry" THEN [group[i] EXCEPT !.key = key]
     ELSE group[i]]

InputOf(names) ==
  FlattenSeq([k \in DOMAIN names |-> Keyed(Group[names[k]], k)])

Names == BoundedSeq(GroupNames, 2) \cup BoundedSeq(LongNames, MaxGroups)

AllInputs ==
  {InputOf(names) : names \in Names}
    \cup {Append(InputOf(names), [kind |-> "error"]) : names \in Names}
==============================================================================
