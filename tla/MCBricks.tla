------------------------------ MODULE MCBricks ------------------------------
(***************************************************************************)
(* Instances of the data structures and the algorithms of the bricks. They *)
(* have nothing to do with each other: a behaviour is one of one part,     *)
(* whose variables are s1, s2 and so on in the order of its module.        *)
(***************************************************************************)
EXTENDS Integers

VARIABLES part, \* the part that this behaviour is about
          s1, s2, s3, s4, s5, s6, s7, s8, s9  \* its variables

vars == <<part, s1, s2, s3, s4, s5, s6, s7, s8, s9>>

(* sequential: six values, three of a kind in one place, and a table that   *)
(* grows.                                                                   *)
Set == INSTANCE HashSet WITH
  table <- s1, used <- s2, bits <- s3, call <- s4, set <- s5,
  Values <- {1, 2, 9, 10, 17, 18}, HashRange <- 32, Offset <- 1, thresh <- 2,
  maxcollisions <- 4, Initial <- 5, Hundred <- 4, Percent <- 3, MaxSize <- 16

(* concurrent: four calls of two threads; both values have the same hash.   *)
Hash == INSTANCE ConcurrentHashSet WITH
  table <- s1, tableWorkers <- s2, currentRow <- s3, availableSegments <- s4,
  doneSegments <- s5, used <- s6, growing <- s7, th <- s8, absent <- s9,
  Threads <- {"t1", "t2"}, Values <- {1, 5}, HashRange <- 4, thresh <- 1,
  maxcollisions <- 8, segmentSize <- 1, syncPoint <- 1, Growth <- 2,
  MaxGrows <- 4, MaxCalls <- 4

(* mixed: three calls of two threads with two values of the same hash and   *)
(* one of another.                                                          *)
Mixed == INSTANCE ConcurrentHashSet WITH
  table <- s1, tableWorkers <- s2, currentRow <- s3, availableSegments <- s4,
  doneSegments <- s5, used <- s6, growing <- s7, th <- s8, absent <- s9,
  Threads <- {"t1", "t2"}, Values <- {1, 2, 5}, HashRange <- 4, thresh <- 1,
  maxcollisions <- 8, segmentSize <- 1, syncPoint <- 1, Growth <- 2,
  MaxGrows <- 4, MaxCalls <- 3

(* lexing: texts of four characters that come in pieces.                    *)
Lex == INSTANCE Lexing WITH
  text <- s1, block <- s2, rest <- s3, ended <- s4, window <- s5,
  current <- s6, match <- s7, pc <- s8, tokens <- s9, MaxText <- 4,
  Blocks <- {1, 2, 3}

(* parsing: three tokens, two parsers that run on them.                     *)
Parse == INSTANCE Parsing WITH
  tokens <- s1, position <- s2, failures <- s3, parsed <- s4, asked <- s5,
  failed <- s6, MaxTokens <- 3, MaxAttempts <- 2

(* table: three rows with two indexes and a column without.                 *)
Rows == INSTANCE Table WITH
  rows <- s1, row <- s2, index <- s3, last <- s4, Keys <- {"k1", "k2", "k3"},
  Names <- {"k1"}, Notes <- {"x", "y"}, Places <- {"p1", "p2", "p3"}

(* union: two unions of two types.                                          *)
Variant == INSTANCE Union WITH
  discriminator <- s1, storage <- s2, object <- s3, last <- s4,
  Unions <- {"u", "v"}, Types <- 2, Values <- {1, 2}

(* smallvector: two vectors of up to three elements, one of which has a     *)
(* place of its own.                                                        *)
Vector == INSTANCE SmallVector WITH
  size <- s1, onstack <- s2, capacity <- s3, block <- s4, stack <- s5,
  heap <- s6, leaked <- s7, broken <- s8, content <- s9,
  Vectors <- {"v", "w"}, Values <- {1, 2}, Default <- 1, StackCapacity <- 1,
  MaxSize <- 3

(* query: two iterators over three places with up to two elements each.     *)
Range == INSTANCE Query WITH
  lengths <- s1, kept <- s2, it <- s3, made <- s4, shown <- s5, family <- s6,
  Iterators <- {1, 2}, MaxPlaces <- 3, MaxLength <- 2

(* mapping: two handles and files of up to two pages.                       *)
Map == INSTANCE Mapping WITH
  ptr <- s1, flags <- s2, size <- s3, exists <- s4, mapping <- s5,
  users <- s6, fds <- s7, torn <- s8, shut <- s9, Handles <- {"h1", "h2"},
  Files <- {0, 1, 2}, Modes <- {{"Read", "Shared"}, {"Write", "Shared"}},
  MaxOpen <- 2

(* The constants of every part are what its module asks for.                *)
ASSUME BricksAssumption ==
  /\ Set!HashSetConstants
  /\ Hash!HashSetConstants
  /\ Mixed!HashSetConstants
  /\ Lex!LexingConstants
  /\ Parse!ParsingConstants
  /\ Variant!UnionConstants
  /\ Vector!SmallVectorConstants
  /\ Range!QueryConstants
  /\ Map!MappingConstants

None4 == /\ s5 = "none" /\ s6 = "none" /\ s7 = "none" /\ s8 = "none"
         /\ s9 = "none"
Rest4 == <<part, s5, s6, s7, s8, s9>>
None5 == /\ s6 = "none" /\ s7 = "none" /\ s8 = "none" /\ s9 = "none"
Rest5 == <<part, s6, s7, s8, s9>>
None6 == /\ s7 = "none" /\ s8 = "none" /\ s9 = "none"
Rest6 == <<part, s7, s8, s9>>
Rest9 == <<part>>

Init ==
  \/ part = "sequential" /\ Set!Init /\ None5
  \/ part = "concurrent" /\ Hash!Init
  \/ part = "mixed" /\ Mixed!Init
  \/ part = "lexing" /\ Lex!Init
  \/ part = "parsing" /\ Parse!Init /\ None6
  \/ part = "table" /\ Rows!Init /\ None4
  \/ part = "union" /\ Variant!Init /\ None4
  \/ part = "smallvector" /\ Vector!Init
  \/ part = "query" /\ Range!Init /\ None6
  \/ part = "mapping" /\ Map!Init

Next ==
  \/ part = "sequential" /\ Set!Next /\ UNCHANGED Rest5
  \/ part = "concurrent" /\ Hash!Next /\ UNCHANGED Rest9
  \/ part = "mixed" /\ Mixed!Next /\ UNCHANGED Rest9
  \/ part = "lexing" /\ Lex!Next /\ UNCHANGED Rest9
  \/ part = "parsing" /\ Parse!Next /\ UNCHANGED Rest6
  \/ part = "table" /\ Rows!Next /\ UNCHANGED Rest4
  \/ part = "union" /\ Variant!Next /\ UNCHANGED Rest4
  \/ part = "smallvector" /\ Vector!Next /\ UNCHANGED Rest9
  \/ part = "query" /\ Range!Next /\ UNCHANGED Rest6
  \/ part = "mapping" /\ Map!Next /\ UNCHANGED Rest9

Spec == Init /\ [][Next]_vars

-----------------------------------------------------------------------------
(* The type of every part.                                                  *)
TypeOK ==
  CASE part = "sequential" -> Set!TypeOK
    [] part = "concurrent" -> Hash!TypeOK
    [] part = "mixed" -> Mixed!TypeOK
    [] part = "lexing" -> Lex!TypeOK
    [] part = "parsing" -> Parse!TypeOK
    [] part = "table" -> Rows!TypeOK
    [] part = "union" -> Variant!TypeOK
    [] part = "smallvector" -> Vector!TypeOK
    [] part = "query" -> Range!TypeOK
    [] part = "mapping" -> Map!TypeOK

(* A hash set holds what was inserted and finds it, while it grows and      *)
(* other threads insert; nobody looks at a row that was freed, rows that    *)
(* were left are freed, and no assertion fails (brick-hashset.h).           *)
Hashed ==
  /\ part = "sequential" => /\ Set!IsSet /\ Set!NoAssertion
  /\ part = "concurrent" => /\ Hash!Truthful
                            /\ Hash!Alive
                            /\ Hash!NoError
                            /\ Hash!NoLeak
  /\ part = "mixed" => /\ Mixed!Truthful
                       /\ Mixed!Alive
                       /\ Mixed!NoError
                       /\ Mixed!NoLeak

(* Tokens are the longest matches of the text, whatever the blocks it comes *)
(* in, unless an iterator went stale on the way; and a parser accepts what  *)
(* its grammar derives: an alternative that failed leaves no trace but its  *)
(* failure (brick-parse.h).                                                 *)
Parsed ==
  /\ part = "lexing" => /\ Lex!Split /\ Lex!Munched
  /\ part = "parsing" => /\ Parse!Sound /\ Parse!Reported /\ Parse!AnyOrder

(* What two places say of the same thing agrees after any step that failed: *)
(* rows and indexes (brick-db.h), discriminator and object of a union       *)
(* (brick-types.h), size and elements of a vector (brick-data.h), an        *)
(* iterator and the collection it keeps (brick-query.h), handles, mappings  *)
(* and descriptors, unless the handle was moved from (brick-mmap.h).        *)
Consistent ==
  /\ part = "table" => /\ Rows!InStep /\ Rows!UniqueKeys /\ Rows!Selected
  /\ part = "union" => /\ Variant!Agrees
                       /\ Variant!Alone
                       /\ Variant!Ordered
                       /\ Variant!OrderedValues
  /\ part = "smallvector" => /\ Vector!Same
                             /\ Vector!NoneElse
                             /\ Vector!BlocksOwned
  /\ part = "query" => /\ Range!NoDangling /\ Range!InOrder
  /\ part = "mapping" => /\ Map!MappedWhileUsed
                         /\ Map!DescriptorsOwned
                         /\ Map!SizeRight

(* A set only grows, by the value an insertion takes a cell for, however    *)
(* often it is rehashed; a change of a table happens or leaves it as it     *)
(* was; an assignment to a union that fails changes neither; a descriptor   *)
(* is closed by the last handle of a mapping.                               *)
ChangesStep ==
  /\ part = "concurrent" => Hash!GrowsStep
  /\ part = "mixed" => Mixed!GrowsStep
  /\ part = "table" => Rows!AllOrNothingStep
  /\ part = "union" => Variant!CopyAndSwapStep
  /\ part = "mapping" => Map!ClosedWithLastStep
Changes == [][ChangesStep]_vars
=============================================================================
