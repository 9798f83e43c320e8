# A TLA+ model of geoarrow-c

geoarrow-c converts geometries between encodings: well-known text (WKT),
well-known binary (WKB) and native GeoArrow arrays. It is a sequential C
library. What makes it hard is not concurrency but *protocol*: a reader walks a
geometry and calls a writer back, one callback per feature, geometry, ring and
chunk of coordinates, and the writer must turn a stream of such calls, of any
nesting and any length, some of them cut short by an error, into flat buffers
whose offsets, counts and validity bits agree with one another.

Paths below are relative to `src/geoarrow/` of the repository.

## 1. Inventory

| Component | State it keeps | Operations | Interacts with | Hard behaviour | Correct when |
|---|---|---|---|---|---|
| Visitor protocol (`geoarrow_type.h:781-862`, driven by `geometry.c:412-527`, `array_view.c:280-605`, `wkt_reader.c`, `array_reader.c`) | the open feature, geometries and rings of the walk | `feat_start`, `null_feat`, `geom_start`, `ring_start`, `coords`, `ring_end`, `geom_end`, `feat_end` | every reader calls, every writer implements | chunked and empty sequences, null features, a reader that returns in the middle of a feature without calling `feat_end` | calls nest; a feature has one geometry or is null |
| WKB writer (`wkb_writer.c`) | values, offsets, lazy bitmap, `level`, `size[32]`, `size_pos[32]`, counters | the eight callbacks, `Finish`, `Append`, `AppendNull` | visitor protocol, nanoarrow buffers | counts written before they are known and filled in later; values that outgrow an int32 offset; a bitmap created at the first null | each row is the encoding of its feature; arrays are valid |
| Native writer (`native_writer.c`) | builder, up to three levels of offsets, nesting level, lazy bitmap | callbacks of four visitor families, `Append`, `AppendNull`, `Finish` | builder | a feature of the wrong shape is noticed after part of it was written | offsets ascend and end where the next level begins; the row of a feature has its lists |
| WKT writer (`wkt_writer.c`) | text buffer, offsets, level stack, lazy bitmap | the eight callbacks, `Finish` | visitor protocol, kernels | element size limit: EAGAIN in the middle of a sequence, truncation in `feat_end` | an element is the text of its feature, cut at the limit (except after a null, section 6); separators and parentheses balance |
| Geometry builder (`geometry.c:155-407`) | node list, coordinate buffer | the eight callbacks | visitor protocol, WKB reader's node list | reallocation of coordinates while nodes point into them; sizes of collections computed at the end | visiting the node list repeats the calls that built it |
| WKB reader (`wkb_reader.c`) | cursor, remaining size, byte order, node list | `Read`, `Visit` | geometry view visitor | nested byte orders, truncated input | of a row that is whole it reads the row and no more; reading what the writer wrote gives the feature back |
| WKT reader (`wkt_reader.c`) | cursor, coordinate cache | `Visit` | writers | cache flushes, errors after `feat_end` | each coordinate is passed on exactly once |
| Kernels (`kernel.c`) | a reader, a visitor and its writer, aggregates | `start`, `push_batch`, `push_batch_by_feature`, `finish` | array reader, writers | EAGAIN, a failed batch followed by another one | output has one row per input row |
| Array builder (`builder.c`, `geoarrow_type_inline.h`) | buffer views, owned buffers | append, reserve, set buffer, `Finish` | native writer | views that are stale after a reallocation; lengths computed from buffer sizes | lengths of parents and children agree |
| Array view, array reader (`array_view.c`, `array_reader.c`) | pointers into an Arrow array, offsets of each level | `SetArray`, `Visit` | readers, writers | offsets of slices and of nested lists add up | a slice is visited as the rows it holds |
| Array writer (`array_writer.c`) | the writer it owns | dispatch | the three writers | none of its own | - |
| Types and schemas (`schema.c`, `schema_view.c`, `geoarrow_type_inline.h`) | none | parse, format, pack | builder, metadata, C++ data types | schemas of other producers, which may differ anywhere | a schema stands for at most one layout; parse inverts format |
| Metadata (`metadata.c`) | none | parse, serialise | schemas | size computed in one pass, text written in another; a hand-written scanner | the two passes agree; what is passed on still means the same |
| C++ data types, views and builder (`hpp/geometry_data_type.hpp`, `hpp/array_util.hpp`, `hpp/array_writer.hpp`) | a type with metadata; offsets, lengths and pointers of nested sequences | make, modify, export; slice, iterate, visit vertices and edges; append | types, metadata, builder, array view | slices of slices over lists whose children have offsets of their own | views show the rows that were built |
| Scalar functions, errors, numbers (`scalar_udf.c`, `util.c`, `double_*.c`) | none | - | - | none | - |
| Python, vendored nanoarrow, ryu, fast_float | wrappers or third-party | - | - | - | out of scope |

`PROJECT.json` lists the same components with their status, and under
`hazards`, line by line, what is hard to test in them.

## 2. What is modelled

| Module | What it is |
|---|---|
| *The protocol* | |
| `GeometryTypes`, `VisitorProtocol` | The caller: which callback a reader may call next. `open` is the stack of started features, geometries and rings; `nodes`, `rows` and `failed` are history (the calls of the current feature, the completed features, the number of abandoned ones). |
| `Visiting` | A reader at work: the control stack of its recursive functions (`todo`), and what a visitor that writes everything down has heard. |
| *Writers* | |
| `LazyValidity` | The bitmap every writer creates at its first null feature. |
| `WKBWriter`, `NativeWriter` | `wkb_writer.c` and `native_writer.c` as visitors. Each action conjoins a `Read...` action of `VisitorProtocol` with the handler registered for that callback, so that a step is one complete call. |
| `WKBAppend`, `NativeAppend` | Their other entry points, which append whole geometries. |
| `WKTTokens`, `WKTWriter` | `wkt_writer.c`: its state as a record, one operator per callback. |
| `WKBReference`, `NativeReference`, `WKTReference` | What is to be written, as a function of the calls or the geometry alone, and for the first two the refinement mapping to `RowSink`. |
| `RowSink` | The abstract promise of an array writer: rows are appended, never altered, handed over all at once; an abandoned feature spoils its batch and no later one. |
| *Readers* | |
| `WKTReader`, `GeometryView` + `WKBReader`, `NativeArrays` + `ArrayView` | The three readers. |
| `ArrayReader` | `array_reader.c`, composing all three: slices, nulls, several visits with one reader; its calls are checked against `VisitorProtocol`. |
| *Geometries* | |
| `GeometryBuilder` | `geometry.c`: the visitor that records nodes over a buffer that moves. |
| `Geometries` | Deep copies, and the composition with `GeometryView` and `WKBReader`: a geometry is recorded or read, copied, its source reused, and visited. |
| *Kernels* | |
| `Kernels` | `kernel.c` over `WKTWriter` and its own visitors. |
| *Columns* | |
| `Types`, `Schemas`, `Metadata` | Type ids and their parts; schemas of types and types of schemas; extension metadata. |
| `DataType` | `GeometryDataType` of the C++ headers: columns described, modified, exported, imported and passed on, by this library and by producers that share no code with it. |
| `Builder`, `SequenceViews`, `Building` | `builder.c`; the C++ views of arrays; a caller who builds arrays piece by piece and looks at them. |
| `Exchange` | `DataType` and `Building` composed: what was understood of a field is what is built. |
| *For TLC* `...MC` | The inputs of the runs. |
| *Proofs* `VisitorProtocolProofs`, `DataProofs`, `WKBWriterProofs`, `WKBRowsProofs`, `NativeWriterProofs`, `NativeRowsProofs`, `GeometryProofs`, `KernelProofs` | The theorems. |

How `WKBWriter` corresponds to `struct WKBWriterPrivate`:

| Code | Model |
|---|---|
| `values` (bytes) | a sequence of words, one per field written: header, 32-bit count, coordinate. Positions and sizes count words. A coordinate carries the number of its feature in the batch instead of doubles, and the number of its ordinates. |
| `offsets`, `length`, `null_count`, `feat_is_null`, `level` | the variables of the same name |
| `size_pos[32]`, `size[32]`, `geometry_type[32]`, `dimensions[32]` | functions on `0 .. MaxLevel + 1`; `MaxLevel` is the 30 of `WKBWriterCheckLevel`. Entries the code leaves uninitialised are initialised here; every level is written before it is read, which `LevelsTrackVisit` and `ReservedCounts` imply. |
| 2147483647, `uint32_t` | `MaxOffset`, `CountMod` |
| an array handed out by `Finish` | `array`, with a history flag `exact`: no feature of its batch was abandoned |

A callback that returns an error is followed by the reader returning at once
(`NANOARROW_RETURN_NOT_OK` everywhere in the readers), so an error path is a
step that applies what the callback did before it failed and abandons the
feature: `FeatStartOverflow` for the overflow check of `feat_start`, and
`ReaderFails` for the callbacks that check before they write and for errors in
the reader's own input. `feat_end` is then not called, and the next feature
starts on top of what is left.

Left out of `WKBWriter`: failed allocations (ENOMEM in the middle of a
callback), and nanoarrow's refusal to build an array with too few offsets, which
can only follow an abandoned feature. The type code and byte order of a header
are one word. `WKBAppend` adds `Append` and `AppendNull` on the same state; there
the cast of a size to `int32_t` is `Int32`, without a check, as in the code. An append
that is refused leaves its offset and the words of the nodes before the refused one.

How `NativeWriter` corresponds to `struct GeoArrowNativeWriterPrivate` and its
callbacks:

| Code | Model |
|---|---|
| `_point`, `_multipoint`, `_multilinestring`, `_multipolygon` callbacks, chosen by the type of the array | `depth` 0, 1, 2, 3, chosen in `Init` from `ListDepths`; LINESTRING and MULTIPOINT arrays share a family, as do POLYGON and MULTILINESTRING arrays |
| the builder's coordinate buffers | `coords`: one label per coordinate, the number of its feature in the batch, or `NaN`. The conversion of dimensions is left out. |
| the builder's offset buffers | `offsets[l]`, `0` the outermost; levels past the depth are empty |
| `size[]`, `level`, `nesting_multipoint`, `feat_is_null`, `null_count`, `validity` | the variables of the same name; each family resets and uses `size[0 .. CoordLevel]` |
| `geom_end` with its switch on `level` | `GeomEnd`, and `PolygonEnd` for level 1 of multipolygons |
| `feat_end` | `FeatEnd`: `PointEnd` (an empty point becomes NaNs), `LinestringEnd` or `ListsEnd` (closes what was left open, inside out); `FeatRejected` is its EINVAL |
| `GeoArrowNativeWriterEnsureOutputInitialized` | the state of `Init` and `Restart`. The bitmap is resized to 0 but keeps its memory, so after one batch with a null every later batch has bits. |
| EOVERFLOW | `Overflow`, from whichever callback is about to write an offset; what `ring_end` and `geom_end` did to `level` and `size` before it stays |

Left out of `NativeWriter`: failed allocations, and the refusal of an array
whose bitmap is shorter than its rows, which can only follow an abandoned
feature. `NativeAppend` adds `Append` and `AppendNull` (lines 144-434) with the
`last_offset` they keep. A visitor does not keep it, so a writer that is driven
in both ways would write offsets that go back; `appends` fixes the way for a
behaviour. `GeometriesAssumption` says what may be appended: a geometry that is stored as
`geoarrow_type.h:456` says, each node followed by its parts and each part of a type
its container may have, which Append does not look at. `AppendSize` compares a size
with INT32_MAX, but not the sum of the sizes, which wraps (`Int32`).

How the readers correspond: `todo` is the C stack. A function that calls others
is an operator guarded by `At("<its name>")` whose step replaces the entry by
what the function does next, and a state between two calls is kept in the
entries. A visitor's error, a bad token or a short buffer is `Fail`, which empties
the stack as `RETURN_NOT_OK` does. Text is a sequence of tokens and white space
is one token of any length; binary is a sequence of words of known size with a
byte order each, so that reading one in the wrong order is noticed.

| Code | Model |
|---|---|
| `WKTReaderPrivate`: `src`, `src0` and the coordinate cache | `text`, `cache`, `width`; they stay after a failed visit |
| `WKBReaderPrivate`: `data`, `size_bytes`, `need_swapping`, nodes | `bytes`, `remaining`, `needSwapping`, `view`; `remaining` may exceed what is left; a read past the end goes on with any of the words `Beyond`, and the history flag `overran` says so |
| `GeoArrowArrayView` | the record that `SetArray` returns: pointers are a buffer and a start, levels have offsets |
| `GeoArrowGeometry` of the builder | `root`, `ordinates`, `capacity`, `allocation`: a pointer is an allocation and an offset, and one to an old allocation is stale |

`WKTWriter` and the kernels' visitors are records and operators that return a
code and the state after the call; `Kernels` folds them over the calls of a row,
one row in a step, since nothing can happen between the calls of a row. In
`Builder` likewise every operation is an operator on a record: `src[i]` is the
buffer nanoarrow owns, `view[i]` and `coords` what the builder has cached of it.
An address is the capacity its memory had; a write to an address that is not
current is lost. Appending through one kind of cache after the other is excluded
where the header forbids it (`geoarrow_type.h` and `geoarrow.h:158-166`): a job
has a style, and only the coordinates go through the coordinate appender.

`Metadata` has texts as words and punctuation; sizes are those of the texts.
`DataType.meant` is what the programs mean, kept apart from what the code
derives, and the field of another producer comes with what it means or with
`Unknown` when it was damaged.

## 3. What the runs check

All runs but `readers` are over safety properties and state no fairness: a
caller may stop calling at any time, and nothing in the library waits for
anything. `readers` states weak fairness of `Proceed`, the steps of a visit that
has begun: a reader is a plain function that runs in its caller's thread until
it returns, so only the call itself is up to the caller. `VisitsEnd`, that every
visit returns, rests on it. Deadlock checking is off in all but `exchange`
and `crs_type`, because a model whose bounds are used up stops.

| Run | Question | Properties |
|---|---|---|
| `readers` | does every reader make exactly the calls of its rows, in the order writers rely on, and come to an end? | `VisitedExactly`, `RowsBeforeError`, `CallsFollowProtocol`, `VisitsEnd` |
| `geometry` | does a geometry survive its buffer's moves, a copy, and the reuse of its source? | `PointersCurrent`, `VisitsRepeat` |
| `wkb_visits` | is every row the encoding of its feature, and do rows, offsets and bits stay together whatever was abandoned? | `TypeOK`, `OffsetsInValues`, `NullsCounted`, `OffsetsAddressable`, `Aligned`, `ArrayWellFormed`, `ReservedCounts`, `RowsEncodeFeatures`, `OnlyReservedCountsChange`, `SinkSpec` (refinement of `RowSink`) |
| `wkb_append` | and if features are appended between the visits, values outgrow an offset and counts wrap? | `LevelsTrackVisit`, `OffsetsNeverWrap`, `RowsEncodeFeatures` |
| `native_visits` | does a row of any depth have the lists of its feature, and do lists nest after any failure? | `TypeOK`, `ListsNest`, `OffsetsFit`, `SizesBacked`, `NullsCounted`, `RowsAreShapes`, `CoordinatesKept`, `FittingFeatureAccepted` |
| `native_batches` | do rows, lists and bits stay together over several arrays, visited or appended? | `Aligned`, `ArrayWellFormed`, `AppendedRowsAreShapes`, `SinkSpec` |
| `kernels` | is what every kernel puts out true of the rows it was given, failed batches and EAGAIN included? | `ElementsAreText`, `NullsOfRows`, `BoxesBound`, `TypesCollected` |
| `exchange` | does a column keep its meaning on its way from program to program, and does what is built from it hold what was appended? | `MeaningKept`, `StorageUnderstood`, `CachesCurrent`, `BuiltAsAppended`, `ViewsAgree` |
| `native_mixed` | are all coordinates of a feature that an array of linestrings accepts in its row? **No** | `NoMisalignedOutput` (violated) |
| `deep_copy` | has a deep copy the coordinates of its source? **Not if they are swapped** | `CopyHasCoords` (violated) |
| `kernel_length` | has the output of a scalar kernel the length of its input? **Not after a batch that failed** | `LengthOfInput` (violated) |
| `crs_type` | is an unrecognized type of a crs ignored? **Not if it is as long as a known one** | `UnrecognizedIgnored` (violated) |

Bounds, and why they are enough:

* `readers`: about 1300 sources: every type with up to two parts and five coordinates, text in every style of spacing, EMPTY and dimensions, binary in both dialects and byte orders with parts of the other order, arrays with offsets at every level, slices of three rows with nulls, separate and interleaved; then texts and binaries cut at every place or with one token missing. What follows a row that is cut and read past its end is one of three words at a time, in the reader's own byte order (`Beyond`): enough for the visit to fail, or to succeed with a part that is not in the row. The caches hold 2 coordinates and 6 ordinates instead of 64 and 384, so that five coordinates fill them twice and leave a rest. Readers of some sources are used twice, after success and failure.
* `geometry`: features of up to five geometries, rings and coordinates, the second one small, one abandoned before them; 4 ordinates of cache. A reallocation needs a second sequence, a wrong node count a third node. A row of binary is read while nothing is recorded, for the two share nothing but the visit.
* `wkb_visits`: up to five geometries and rings, three levels, chunks of 0 or 1 coordinates, three features, two `Finish` calls, one abandoned feature, `MaxLevel` 3 and offsets up to 12 words; `SmallBatches` trades the size of a feature for the number of features, for what a level's entries keep from a sibling takes four nodes, and what a writer keeps from a batch takes none. With the real `MaxLevel`, `MaxOffset` and `CountMod` the arithmetic is the same, and the theorems cover them.
* `wkb_append`: one array of three features, offsets up to 9 words, counts modulo 10 and sequences of up to 11 coordinates, so that a count wraps, a feature outgrows the offsets, and an appended one comes before and after it.
* `native_visits`: five geometries or rings, three levels, all seven types, arrays of every depth; one abandoned or rejected feature; `MaxOffset` 3 reaches every overflow check. A multipolygon of two polygons with a ring each has five nodes.
* `native_batches`: three features, two `Finish` calls, arrays of all six types, so that nulls and empty features come before, at and after the creation of the bitmap and again in a batch that starts with its memory.
* `kernels`: batches of up to three rows, two batches, rows of every kind cut after any call, coordinates in one chunk or several, element limits of 0 and 6 tokens and none, so that elements are shorter and longer than the limit, before and after a null. The writer has 4 levels instead of 32.
* `exchange`: all native types in three kinds of dimensions and both layouts, all serialized ones, requests that have to be refused, fields with metadata of up to three keys in any order, with white space everywhere or nowhere, with numbers, booleans and other values under keys that are not known, with something between a value and the next comma, with a comma too many, texts cut at every place, and every schema with one thing changed at any depth. Eight jobs cover the six native types, boxes and a serialized type, all four kinds of dimensions, sources of fewer and more dimensions, three styles and both layouts; pieces of one element or all that is left, two arrays from one builder, views from any offset, over children with something before them, and slices of slices.

What the violated runs show:

* `native_mixed`. `geom_end_multipoint` closes the row of an array of linestrings
  (or multipoints) as soon as a sequence ends. If the feature is a collection in
  which a point follows, its coordinate is appended after the row's last offset,
  nothing in `feat_end_multipoint` notices, and the coordinate becomes the first
  of the next row. `feat_end` does reject a second *sequence*, and the same code
  for arrays of points says why it must ("we'll get misaligned output",
  `native_writer.c:500`). `CoordinatesKept` shows that the deeper arrays, whose
  `feat_end` closes what was left open, do not have the defect, and
  `RowsAreShapes` for which features arrays of linestrings are right (`Regular`).
* `deep_copy`. The coordinates of a deep copy are written in native order, but
  the copied nodes keep the flag that says they are swapped, so a visit swaps
  them once more. `VisitsRepeat` shows that copies are right otherwise.
* `kernel_length`. A batch that fails leaves its completed features in the
  writer, and the array of the next batch has them, too. `ElementsAreText` and
  `BoxesBound` state what can be relied on.
* `crs_type`. The parser compares the text of the key instead of the value and
  takes a difference for a match, so that only the length of the value counts.
  In `exchange` the odd type has a length of its own.

## 4. What is proved

The proofs hold for any geometry types, dimensions, bounds, `MaxLevel`,
`MaxOffset` and `CountMod > MaxOffset`, and for any set of depths
(`ProtocolAssumption`, `WKBAssumption`, `NativeAssumption`); in particular for
30, 2^31 - 1 and 2^32. Those about kernels hold for any rows that satisfy
`KernelAssumption`, which is discussed there.

What all proofs share:

* `VisitorProtocolProofs`: `ProtocolPreserved`, one step of the caller, whatever
  the writer does, for any writer's proof to cite; and what starting and ending
  a part does to the stack of open parts and to the count of each.
* `DataProofs`: induction over data, in a form the backends take. The
  library's induction theorems have an operator as a parameter; here the numbers
  that have a property are a set, which contains 0 and with every number the
  next one and hence is `Nat`. From it: what `FoldLeft`, `FoldRight` and `FlattenSeq`
  compute, step by step, and that ascending neighbours ascend throughout.
  It also has what every writer needs of `LazyValidity`: what the two ways of adding
  a bit do to the number of 0 bits and to the bits before it (`ValidityKept`);
  counting bits as they are appended uses the library's theorems on finite
  cardinalities.

**The binary writer, visited** (`WKBWriterProofs`). The inductive invariant is
`Inv == TypeOK /\ Nesting /\ LevelsTrackVisit /\ OffsetsAscend /\ ReservedCounts`.
None of the parts is inductive alone. `ring_end` and `geom_end` store through
`size_pos[level]`: that this hits the right word needs `ReservedCounts`, which
is about levels of the *visit*, hence `LevelsTrackVisit`; that it does not touch
a finished feature needs the current feature to start after all others, hence
`OffsetsAscend`; that the level stays inside the arrays of 32 needs the nesting
of the calls. Consequences: `TypeCorrect`, `LevelsCorrect`, `OffsetsCorrect`,
`ReservedCorrect` and the action property `WordsCorrect` (nothing that was
written is lost or overwritten, except that a reserved 0 becomes a count).
`BatchInv` adds `Aligned`, `NullsCounted`, `ArrayWellFormed` and
`OffsetsAddressable`, with the consequences `AlignedCorrect`, `NullsCorrect`,
`ArrayCorrect`, `AddressableCorrect`. `SinkRefined` shows that every step is a
step of `RowSink` or a stutter of it: a callback inside a feature writes past the
end of the last complete row only (`VisitIsStutter`), `feat_end` adds one row
although it may build the whole bitmap (`FeatEndCompletes`), and `Finish` hands
over the pending rows and nothing else (`FinishHandsOver`).

**The rows of the binary writer, visited and appended** (`WKBRowsProofs`, about
`AppendSpec`, in which features of a batch are visited or appended in any order).

* `NeverWraps`: no array has an offset that wrapped. `Append` casts the size of the
  values to an int32 without a check, so that offsets may wrap in the batch
  under construction, and `AppendInv` promises `BatchInv` only while the values fit
  (`Fits => BatchInv`). That is enough: the values of a batch never shrink, and
  `Finish` refuses one whose values do not fit.
* `AppendedIsEncoding`: what `Append` writes for a node list is what the encoding
  of the geometry says, by induction over the nodes (the loop is a fold).
* `RowsCorrect`: `RowsEncodeFeatures`, the main promise of the writer, visited or
  appended. The invariant is `RowsInv`: while a feature is visited, `Stored` says that
  the words since its offset are those of its nodes, the counts of open parts
  still 0. `Tracks` names the node that each open level belongs to, so that the
  count `ring_end` and `geom_end` fill in goes to the header of that node and is
  the number of its parts; `CountsFit` keeps that number below the width of a
  count (`CountMod`), because each part has taken at least one word of a buffer
  that fits. `VisitedRowsCorrect` is the same for a writer that is only visited.

**The native writer** (`NativeWriterProofs`), for lists of every depth and
features that are abandoned or rejected, too. The inductive invariant is
`Inv == TypeOK /\ Nesting /\ WellNested(offsets) /\ SizesBacked /\ RowStarted /\
NullsCounted`. `WellNested` is `ListsNest` and a stronger form of `OffsetsFit`:
below the rows the i-th offset is at least i - 1, so that a level never has more
lists than there are coordinates under its last offset. This is why checking the
number of coordinates is enough, although the code casts the numbers of sequences
and polygons without a check. That such lists are not empty is what `SizesBacked`
is for (an offset is only written if the callback counted an element, and what
it counted is there); `RowStarted` gives `feat_end` the row its bit is for.
Consequences: `TypeCorrect`, `ListsCorrect`, `OffsetsCorrect`, `SizesCorrect`,
`NullsCorrect`.

* `AlignedCorrect`, `ArrayCorrect`, from `BatchInv`: as long as no feature of the
  batch was abandoned, a row of points or sequences is there as soon as `size[0]`
  says so, one of lists only after `feat_end` (`RowsInPlace`); what lies past the
  last offset of a level is exactly what `size[]` counted (`AllCounted`), so that
  closing what was left open leaves nothing behind; and the bits keep up
  (`BitsInPlace`).
* `FittingCorrect`: an array of linestrings or multipoints never refuses a feature
  of a fitting type. The invariant, `OneSequence`, has to explain what the
  code does with `level` and `nestingMultipoint` for features that no reader would
  make, such as a multipoint in a multipoint: only multipoints are open around the
  current part, the level was 2 or more whenever two of them were, and it never
  returns to 1, so that the end of the feature is the only one that is counted.
* `CoordinatesCorrect`: in arrays of lists of lists every row has the coordinates
  of its feature. `KeptInv == BatchInv /\ CoordsInPlace`: `Reach` follows the start
  of a row through two or three levels of offsets down to the coordinates, and
  `RowIsRange` shows that the coordinates between two such places are those of the
  row when all its lists are flattened. Closing lists at any level moves
  none of those places (`ReachKept`), so the invariant only has to know that the
  coordinates after the last row are those of the current feature; for the
  abandoned features, after which this fails, the property does not speak.
* `SinkRefined`: the writer implements `RowSink`. A row here is not a range of
  one buffer but a list cut from lists, up to three times, and `feat_end` may
  close lists at every level. The proof is that all buffers only grow
  (`BatchGrows`), and that nested lists of buffers that others begin with are the
  first lists of the others (`NestedBegins`).

**The rows of the native writer** (`NativeRowsProofs`). `RowsAreShapesCorrect`: the main
promise of the writer, list by list and not only coordinate by coordinate, for arrays of
all four depths. It is about features of fitting types, and collections of such, in
batches without an abandoned feature (`Regular` says which types fit). The code has no
notion of a part of a feature: `ring_end`, `geom_end` and `feat_end` close lists by
what `level` and `size[]` are, and what they close is whatever lies past the last offset.
The proof says at every moment what lies there. `ShapesInv` is `BatchInv`,
`OneSequence` and

* `Parented`, `SequenceIsLast`: what may be open in what, and that the sequence or
  ring that is open is the node visited last;
* `LevelsFit`: `level` is the one of the innermost open part, as long as the
  types of the feature fit. With a point or multipoint among linestrings it is
  not, which is why such features are no part of the promise;
* `OpenSequencesFit`, `OpenPolygonsFit` (two and three levels of lists): the elements
  past the last offset of a level (`Opened`) are the sequences, rings or polygons
  that ended, without the empty ones, and innermost the coordinates of the last node.
  Closing a level takes its open list and makes it the last element of the one above
  (`OpenedByClose`, `RowByClose`), and a list without elements is not
  closed, which is how empty parts get lost;
* `TailFits`, `SettledFits` (points and sequences): the coordinates after the rows are
  those of the current feature; here rows are closed by `geom_end` already and
  not by `feat_end`, unless the feature had no sequence at all;
* `RowsShaped`: the rows so far are the shapes of their features.

`AppendedRowsCorrect`: the same of a writer that is appended to (`AppendSpec`), for
arrays of all six types: every row decodes to the lists of its geometry, here with
the empty ones, and is null exactly where a null was appended. It is about batches of
which every level has at most 2^31 - 1 elements (`ElementsCountable`): beyond, offsets
wrap, and nothing is claimed. `Append` writes offsets first, from sizes of nodes alone, and
coordinates last, so what it relies on is that two descriptions of a geometry agree:
the sizes and the order of its nodes, and its coordinates one after the other.

* The invariant, `AppendInv`, says of every level that its last offset is the number of
  elements below, and that `lastOffset` is that offset (`Ends`), as long as the
  elements can be counted; that the rows are the shapes of the features; and that the
  bitmap, if there is one, has a bit for every row. It has to be conditional:
  since a batch never gets smaller, one that can be counted now could be at every
  step before (`MoreRows`).
* `Adds` is the contract of the three offset functions, for any starting offsets:
  whatever was in the buffers, one list more at the rows, and the lists under it.
  `SequencesAdd` and `GroupsAdd` show it of one polygon and of the polygons of a
  multipolygon, by induction over the loops.
* `GroupsAdd` needs that `node += node->size + 1` arrives at the next polygon,
  and at the end after the last one (`Between`). That follows from the depth-first order
  of the nodes and the types of the parts, which is the content of `WellFormed`.

**Geometries** (`GeometryProofs`). `PointersCorrect`: no node of a geometry ever
points into memory that was released, while features are recorded, abandoned,
copied and visited. In the invariant, `PointersInv`, the coordinates fit their
memory, an open geometry has a node (`ring_start` looks at the last one), and the
nodes, levels and sizes are what the code's types allow. `NodesMoved` is why it
holds: reserving moves the pointers of all nodes or of none. `feat_end` walks the
nodes backwards and changes sizes; that it changes nothing else (`SizedKeeps`) is an
induction over a fold from the right.

**Kernels** (`KernelProofs`). `NullsCorrect`, `BoxesCorrect` and `TypesCorrect`:
what the kernels hand over is true of the rows they were given, over any number of
batches of any length, with rows that fail in the middle, and with features that are
left early by EAGAIN. The invariant, `KernelInv`, is that the visitor holds what it was
told of the rows that no array has yet (`Pending`; the aggregates never hand their rows
over, so theirs are all rows). What "holds" means differs, and this is where
failures matter. The box kernel appends a value and a bit in `feat_end` only and
starts every feature afresh, so its buffers are those of the features that *ended*
(`BoxesFit`), whatever failed between them. The writer of text counts a feature when it
starts and marks it when it ends, so `TextFits` promises something only while every
feature ended. `box_agg` and `unique_geometry_types_agg` have no notion of the end of a
feature: they keep what they heard of rows that failed, too (`BoxAggFits`, `TypesFit`).

A visitor is a fold over the calls of a row (`Visited`), and the invariant needs to know
what one row does to it. That is three inductions over the calls (`TextOfFeature`,
`BoxOfFeature`, `TypesOfFeature`), each with a statement about the calls made so far:
which bit will be written, the bounds of the coordinates heard so far, and that the
remembered type is that of the first geometry until the first coordinate ends the row.
They rest on `HearFold`. `FoldLeft` is defined by a choice of a function over finite sets
of indices, and `HearFold` shows once that what every call preserves holds after the last.

`KernelAssumption` says what rows there are: at most one `feat_start` and one
`feat_end`, the first and the last call; a null feature has no geometry and is told to
the visitor before it ends; coordinates come after the start of a geometry. TLC
evaluates it on the rows of `kernels`. That the readers make no other calls is what
`CallsFollowProtocol` of `readers` checks; coordinates are numbers c from 0 to 9 with
the ordinates c and 9 - c, so boxes are bounded by values and not by labels.

Only model-checked, and why:

* `VisitedExactly` and `RowsBeforeError` of the array reader: the readers of text,
  binary and arrays are machines with a control stack, and what they call is compared
  with calls that `ArrayReaderMC` computes for each source. A proof needs an invariant
  over every stack of every reader, and one definition of the right calls for all inputs.
* `MeaningKept` and `StorageUnderstood` of the data types, `CachesCurrent`,
  `BuiltAsAppended` and `ViewsAgree` of the builder: types, schemas, metadata and views
  are nested, and RECURSIVE operators take them apart, under which the prover has no
  arithmetic.
* `ElementsAreText`: a text is compared with what `WKTReference` writes, recursively,
  for the same geometry, cut at the limit; it is not read back. `KernelProofs` shows that the elements are well typed and
  marked correctly, not what they say.
* `VisitsRepeat` of the geometries: the visit of a node list is a machine with a stack,
  whose calls are compared with the recorded ones in a history.
* the liveness property `VisitsEnd`, which needs fairness.

## 5. Plan

All modules of the plan are written: the protocol, the three writers with both
ways into them, the three readers and the array reader, geometries, kernels,
types, schemas, metadata, the builder and the C++ views. The theorems cover the
binary and the native writer with their refinements of `RowSink`, the recorded geometries and the kernels.

What would be worth proving next:

1. `VisitsRepeat` of `Geometries`: a visit of a node list calls what was recorded.
2. `CachesCurrent` of `Building`, with `FindBuffers` as a recursive function.

## 6. Not modelled

* Failed allocations. They would need a branch in every operation of the
  library. One consequence is visible in the source: when the reserve of a later
  separate buffer fails in `GeoArrowBuilderCoordsReserve`, the addresses of the
  buffers before it are stale in the coordinate appender.
* `scalar_udf.c`, `util.c` (a registry lookup, messages), the number conversions
  and the vendored ryu, fast_float and nanoarrow. ryu and fast_float alone are
  almost half of the lines of `src/geoarrow`.
* `hpp/wkb_util.hpp` (the parsing of `wkb_reader.c` once more, over C++ views),
  `hpp/arrow_extension_type.hpp` (an adapter to another library),
  `hpp/geometry_type_traits.hpp`, iterators over unaligned buffers.
* Python bindings.

What reading the code showed that no run states:

* A row of binary that is cut short may be read past its end, and may succeed.
  `WKBReaderReadNodeCoordinates` moves the cursor without decreasing `size_bytes`
  (`wkb_reader.c:73`), so that later checks let more be read than is left. The model
  reads on, and in `readers` such visits end both ways. `VisitedExactly` says that a
  row that is whole is never read past its end, and that a visit which stayed inside
  its rows succeeds only if they are whole; it claims nothing of what is called for
  a row that was overrun. `RowsBeforeError` covers the rows before it.
* A geometry with parts and without a coordinate, such as MULTIPOINT (EMPTY), a polygon
  with empty rings or a collection of empty parts, can be recorded and not visited.
  `feat_end_geometry` takes it for one without a sequence and returns before the
  sizes are computed (`geometry.c:355-357`), so that a visit finds nodes left over and
  returns EINVAL (`geometry.c:504-507`). `VisitsRepeat` lets exactly these
  geometries (`Hollow`) and those of null features fail.
* The limit of an element is not applied to the elements after the first null of
  a batch (`wkt_writer.c:259`), although `geoarrow.h:458-464` has no such exception.
  `ElementsAreText` says so: before a null, the element of a feature that ended is
  exactly its text cut at the limit; after one, it is the whole text, or what was
  written before EAGAIN, which is at least the limit.
  After an abandoned feature the nulls of a text batch may belong to other rows,
  which `NullsOfRows` leaves out, as no property says of the binary writer which rows
  the bits of such a batch belong to.
* A flat multipoint with an EMPTY point is written as text that the reader refuses.
  `ElementsAreText` compares texts with a reference and claims nothing about
  reading them.
* `GeoArrowMetadataCalculateSerializedSize` counts a backslash as two characters
  (`metadata.c:381`) and the writer writes one (452), against the assertion at
  `metadata.c:484`; the crs given by callers in the runs have quotes and no
  backslashes, and `MeaningKept` does not speak of others.
* The parser of metadata is not one of JSON: a number or a boolean under any key is
  refused (`metadata.c:213-215`), anything may stand between a value and the next comma
  or brace, and a comma may stand before the last brace (276-280). `MeaningKept`
  takes this for what such texts mean, and the run has all of them. It does not speak
  of a key given twice, nor of a plain crs that begins with a quote or a brace.
* `AppendSize` of `NativeAppend` leaves out the EOVERFLOW of a single size above
  2^31 - 1 (`native_writer.c:152-156`); `GeometriesAssumption` excludes such sizes.
* `SkipUntil` in `metadata.c` looks for a NUL that a text need not have; the texts
  of the runs end where their size says.
* After a refused `Finish` the builder's empty buffers may own one byte more than
  its views know, which changes nothing that is appended.
* Of the C++ headers: `BoxXYZ::Empty` and `BoxXYM::Empty` give four values for six
  fields; `CoordSequence::VisitEdges` casts only the first coordinate of an edge,
  so edges are visited in the sequence's own dimensions here; the first overload
  of `SetBufferWrapped` passes the builder where its address is wanted. The
  last two do not compile when they are used in the other ways.
