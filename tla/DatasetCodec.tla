---------------------------- MODULE DatasetCodec ----------------------------
(* A dataset on its way from the builder to a training: columns become       *)
(* blocks of bytes (dataset_compression_engine), which the on-prem server    *)
(* (dataset_compression) or a worker of the API service (ds_decomp) decodes. *)
EXTENDS Integers, SequencesExt

CONSTANTS
  Dataset,    \* datasets: [columns: Seq([dtype, min, max, cells]), outputsFrom]
  Base,       \* the values of a byte
  BlockRows,  \* rows of a block, while there are few; then twice and four times
  Few, Many   \* the numbers of rows up to which there are few, or not many

VARIABLES
  dataset,  \* the dataset that is sent
  packet,   \* what the builder made of it
  rows,     \* what the on-prem server reads in the packet
  decoded   \* what a worker reads in it

vars == <<dataset, packet, rows, decoded>>

Nothing == <<>>
Answer(is, values) == [is |-> is, values |-> values]
Unread == Answer("none", Nothing)
Init == dataset = Nothing /\ packet = Nothing /\ rows = Unread /\ decoded = Unread
-----------------------------------------------------------------------------
(* The builder *)
ChooseBlockRows(n) ==
  CASE n <= Few -> BlockRows [] n > Few /\ n <= Many -> 2 * BlockRows [] OTHER -> 4 * BlockRows

IntegerWidth(min, max) ==
  CASE max - min <= Base - 1 -> 1
    [] max - min > Base - 1 /\ max - min <= Base * Base - 1 -> 2
    [] OTHER -> 4

\* Fault: what is too large for a byte is kept.
ClampBelow(v) == IF v < 0 THEN 0 ELSE v
Clamp(v) == IF v < 0 THEN 0 ELSE IF v > Base - 1 THEN Base - 1 ELSE v

\* What a byte counts that has three, two, one and none behind it.
Place == <<Base * Base * Base, Base * Base, Base, 1>>

\* One byte is clamped, more are cut to their bits.
EncodeNum(column, cell) ==
  LET width == IntegerWidth(column.min, column.max)
      value == IF width = 1 THEN Clamp(cell - column.min) ELSE cell - column.min
  IN [i \in 1..width |-> (value \div Place[4 - width + i]) % Base]

\* A float cell counts halves of the step of a byte; a text is its bytes and a zero.
Encode(column, cell) ==
  CASE column.dtype = "num"   -> EncodeNum(column, cell)
    [] column.dtype = "float" -> <<Clamp(cell \div 2)>>
    [] column.dtype = "text"  -> Append(cell, 0)
    [] column.dtype = "image" -> cell

\* Fault: a run may be one byte longer than its count can say.
LongestRunOver == Base * Base
LongestRun == Base * Base - 1

Longer(runs, v) ==
  IF runs # <<>> /\ Last(runs).value = v /\ Last(runs).count < LongestRun
  THEN Append(Front(runs), [count |-> Last(runs).count + 1, value |-> v])
  ELSE Append(runs, [count |-> 1, value |-> v])
Runs(raw) ==
  LET runs[i \in 0..Len(raw)] == IF i = 0 THEN <<>> ELSE Longer(runs[i - 1], raw[i])
  IN runs[Len(raw)]
RleEncode(raw) ==
  LET runs == Runs(raw)
  IN FlattenSeq([r \in DOMAIN runs |->
       <<(runs[r].count \div Base) % Base, runs[r].count % Base, runs[r].value>>])

AdaptiveBlock(raw) ==
  IF Len(RleEncode(raw)) < Len(raw) THEN <<1>> \o RleEncode(raw) ELSE <<0>> \o raw

EncodeBlock(column, cells) ==
  LET raw == FlattenSeq([i \in DOMAIN cells |-> Encode(column, cells[i])])
  IN IF column.dtype \in {"num", "float"} THEN AdaptiveBlock(raw) ELSE <<0>> \o raw

BuildColumn(column, n) ==
  LET size == ChooseBlockRows(n)
  IN [b \in 1..(n + size - 1) \div size |->
        EncodeBlock(column, SubSeq(column.cells, (b - 1) * size + 1,
                                   IF b * size < n THEN b * size ELSE n))]

\* compress_blocks: the header tells the types, how a number is written, and the rows.
Compress ==
  /\ dataset = Nothing
  /\ \E d \in Dataset :
       LET n == Len(d.columns[1].cells)
       IN /\ dataset' = d
          /\ packet' = [rows |-> n, inputs |-> d.outputsFrom, rowsPerBlock |-> ChooseBlockRows(n),
                        columns |-> [c \in DOMAIN d.columns |->
                          [dtype |-> d.columns[c].dtype, min |-> d.columns[c].min,
                           width |-> IntegerWidth(d.columns[c].min, d.columns[c].max)]],
                        data |-> [c \in DOMAIN d.columns |-> BuildColumn(d.columns[c], n)]]
  /\ UNCHANGED <<rows, decoded>>
-----------------------------------------------------------------------------
(* What both decoders do. *)
RleDecode(payload) ==
  FlattenSeq([r \in 1..Len(payload) \div 3 |->
    [k \in 1..payload[3 * r - 2] * Base + payload[3 * r - 1] |-> payload[3 * r]]])
DecodeAdaptive(block) == IF Head(block) = 1 THEN RleDecode(Tail(block)) ELSE Tail(block)

Chunks(raw, size) == [i \in 1..Len(raw) \div size |-> SubSeq(raw, (i - 1) * size + 1, i * size)]
BigEndian(bytes) ==
  LET value[i \in 0..Len(bytes)] == IF i = 0 THEN 0 ELSE value[i - 1] * Base + bytes[i]
  IN value[Len(bytes)]
DecodeNum(raw, meta) ==
  LET chunks == Chunks(raw, meta.width)
  IN [i \in DOMAIN chunks |-> meta.min + BigEndian(chunks[i])]

\* The bytes between the zeros; after the last zero there is one part more.
Parted(parts, b) == IF b = 0 THEN Append(parts, <<>>) ELSE Append(Front(parts), Append(Last(parts), b))
Split(raw) ==
  LET parts[i \in 0..Len(raw)] == IF i = 0 THEN <<(<<>>)>> ELSE Parted(parts[i - 1], raw[i])
  IN parts[Len(raw)]

\* Both give up when a column has too few values.
Complete(columns, n) == \A c \in DOMAIN columns : Len(columns[c]) >= n

(* The on-prem server knows how many rows a block has; too few bytes are an error. *)
First(values, n) == IF Len(values) < n THEN <<>> ELSE SubSeq(values, 1, n)

DecodeColumnBlock(block, meta, n) ==
  LET raw == DecodeAdaptive(block)
  IN CASE meta.dtype = "num"   -> First(DecodeNum(raw, meta), n)
       [] meta.dtype = "float" -> First(raw, n)
       [] meta.dtype = "text"  ->
            LET parts == Split(raw)
            IN First(IF Last(parts) = <<>> THEN Front(parts) ELSE parts, n)
       [] meta.dtype = "image" ->
            IF Len(raw) % n # 0 THEN <<>> ELSE Chunks(raw, Len(raw) \div n)

DecodePacketColumn(p, c) ==
  LET left(b) == p.rows - (b - 1) * p.rowsPerBlock
      size(b) == IF left(b) < p.rowsPerBlock THEN left(b) ELSE p.rowsPerBlock
  IN FlattenSeq([b \in DOMAIN p.data[c] |->
       DecodeColumnBlock(p.data[c][b], p.columns[c], size(b))])

\* Features are numbers: those of an image stand one after the other.
Features(v, dtype) == IF dtype = "image" THEN v ELSE <<v>>

\* decompress_dataset_packet refuses texts, which no training takes.
Trainable(p) == \A c \in DOMAIN p.columns : p.columns[c].dtype # "text"

DecompressDatasetPacket(p) ==
  LET columns == [c \in DOMAIN p.columns |-> DecodePacketColumn(p, c)]
      dtype(c) == p.columns[c].dtype
  IN IF ~Trainable(p) \/ ~Complete(columns, p.rows) THEN Answer("refused", Nothing)
     ELSE Answer("rows", [r \in 1..p.rows |->
            [features |-> FlattenSeq([c \in 1..p.inputs |-> Features(columns[c][r], dtype(c))]),
             labels |-> [c \in 1..Len(columns) - p.inputs |-> columns[p.inputs + c][r]]]])

Decompress ==
  /\ packet # Nothing /\ rows = Unread
  /\ rows' = DecompressDatasetPacket(packet)
  /\ UNCHANGED <<dataset, packet, decoded>>
-----------------------------------------------------------------------------
(* The worker takes what a block holds; texts are made as many as the rows of *)
(* the whole dataset, and images need a "pixels" no packet tells.             *)
Resized(values, n) == [r \in 1..n |-> IF r <= Len(values) THEN values[r] ELSE <<>>]

DecodeOneStream(block, meta, n) ==
  LET raw == DecodeAdaptive(block)
  IN CASE meta.dtype = "num"   -> DecodeNum(raw, meta)
       [] meta.dtype = "float" -> raw
       [] meta.dtype = "text"  -> Resized(Split(raw), n)

Readable(p) == \A c \in DOMAIN p.columns : p.columns[c].dtype # "image"

DecodeColumnAny(p, c) ==
  FlattenSeq([b \in DOMAIN p.data[c] |-> DecodeOneStream(p.data[c][b], p.columns[c], p.rows)])

Decode ==
  /\ packet # Nothing /\ decoded = Unread
  /\ LET columns == IF Readable(packet)
                    THEN [c \in DOMAIN packet.columns |-> DecodeColumnAny(packet, c)] ELSE Nothing
     IN decoded' = IF ~Readable(packet) \/ ~Complete(columns, packet.rows) THEN Answer("refused", Nothing)
                   ELSE Answer("rows", [r \in 1..packet.rows |->
                          [inputs |-> [c \in 1..packet.inputs |-> columns[c][r]],
                           outputs |-> [c \in 1..Len(columns) - packet.inputs |->
                                          columns[packet.inputs + c][r]]]])
  /\ UNCHANGED <<dataset, packet, rows>>

Next == Compress \/ Decompress \/ Decode
Spec == Init /\ [][Next]_vars
-----------------------------------------------------------------------------
Byte == 0..Base - 1

\* Every block is made of bytes.
CodecTypeOK ==
  packet # Nothing =>
    \A c \in DOMAIN packet.data : \A b \in DOMAIN packet.data[c] : packet.data[c][b] \in Seq(Byte)

\* What a cell that its column can hold must come out as: four bytes hold no wider range.
Kept(column, v, cell) ==
  CASE column.dtype = "num"   ->
         cell \in column.min..column.max /\ cell - column.min < Base * Base * Base * Base => v = cell
    [] column.dtype = "float" -> cell \in 0..2 * Base - 1 => v = cell \div 2
    [] OTHER                  -> v = cell

\* The worker reads in row r of column c what the builder had there.
WorkerReads(c, r) ==
  LET d == dataset
      v == IF c <= d.outputsFrom THEN decoded.values[r].inputs[c]
                                 ELSE decoded.values[r].outputs[c - d.outputsFrom]
  IN Kept(d.columns[c], v, d.columns[c].cells[r])

\* The server reads in row r numbers that are one after the other those of its cells.
ServerReads(r) ==
  LET d == dataset
      width(c) == IF d.columns[c].dtype = "image" THEN Len(d.columns[c].cells[r]) ELSE 1
      at[c \in 1..d.outputsFrom + 1] == IF c = 1 THEN 1 ELSE at[c - 1] + width(c - 1)
      read(c) == IF d.columns[c].dtype = "image"
                 THEN SubSeq(rows.values[r].features, at[c], at[c] + width(c) - 1)
                 ELSE rows.values[r].features[at[c]]
  IN /\ \A c \in 1..d.outputsFrom : Kept(d.columns[c], read(c), d.columns[c].cells[r])
     /\ \A c \in d.outputsFrom + 1..Len(d.columns) :
          Kept(d.columns[c], rows.values[r].labels[c - d.outputsFrom], d.columns[c].cells[r])

\* Both decoders give back the dataset, whatever its widths, its runs and its blocks.
\* Texts are refused by the server and lost after the first block in the worker; the
\* worker refuses images.
RoundTrip ==
  /\ decoded # Unread =>
       /\ decoded.is = "rows" <=> Readable(packet)
       /\ decoded.is = "rows" =>
            \A c \in DOMAIN dataset.columns : \A r \in 1..packet.rows :
              (dataset.columns[c].dtype = "text" => r <= packet.rowsPerBlock)
              => WorkerReads(c, r)
  /\ rows # Unread =>
       /\ rows.is = "rows" <=> Trainable(packet)
       /\ rows.is = "rows" => \A r \in 1..packet.rows : ServerReads(r)
=============================================================================
