---------------------------- MODULE RecordReader ----------------------------
(***************************************************************************)
(* RecordReader (mcf/record_reader.py) over the content of a recording.   *)
(*                                                                         *)
(* A file is a sequence of cells.  A cell is either one msgpack object,   *)
(* which msgpack.Unpacker reads whole or not at all (a file cut inside an *)
(* object is OutOfData at that object), or one raw byte of ExtMem data.   *)
(* An object carries the framing field it was written as (pheader, value, *)
(* mheader).  The Unpacker meeting a raw byte, or the wrong framing field *)
(* where it expects p_header, value or m_header, has lost the record      *)
(* boundaries: what follows is garbage or a decoding exception, "Corrupt" *)
(* here.  Positions are cell numbers, 1 = the start of the file.          *)
(*                                                                         *)
(* zlib is a stream of a header byte, the deflated body (kept as it is:   *)
(* its encoding is not what the reader relies on) and a checksum; the     *)
(* reader relies on the compressed length differing from the raw one and  *)
(* on decompress failing on a cut stream.                                 *)
(***************************************************************************)
EXTENDS Integers, Sequences

Obj(field, v) == [k |-> "obj", f |-> field, v |-> v]
Raw(b) == [k |-> "raw", v |-> b]

ZHead == 120        \* CMF byte of a zlib stream
ZTrail == -1        \* the Adler-32 trailer
\* zlib.compress
Compress(b) == <<ZHead>> \o b \o <<ZTrail>>
\* What get_extmem returns or raises.
Bytes(d) == [kind |-> "bytes", data |-> d]
NoExtMem == [kind |-> "None", data |-> <<>>]
ZlibError == [kind |-> "zlib.error", data |-> <<>>]
\* zlib.decompress: zlib.error on a stream that is cut or not zlib.
Decompress(d) ==
    IF Len(d) >= 2 /\ d[1] = ZHead /\ d[Len(d)] = ZTrail
        THEN Bytes(SubSeq(d, 2, Len(d) - 1)) ELSE ZlibError

\* Unpacker.unpack (or skip) at cell p, expecting the framing field fld.
Unpack(f, p, fld) ==
    CASE p > Len(f)                      -> "OutOfData"
      [] f[p].k = "raw" \/ f[p].f # fld  -> "Corrupt"
      [] OTHER                           -> "ok"

\* p_header, value and m_header unpacked in turn from p: the first that is
\* not "ok" ends the attempt.
Parse(f, p) ==
    LET u == <<Unpack(f, p, "pheader"), Unpack(f, p + 1, "value"),
               Unpack(f, p + 2, "mheader")>>
    IN  IF \A i \in 1..3 : u[i] = "ok" THEN "ok"
        ELSE u[CHOOSE i \in 1..3 : u[i] # "ok" /\ \A j \in 1..i-1 : u[j] = "ok"]

\* The Record filled in from the three objects at p.  An m_header of two
\* fields (older files) has no compressed size.
RecordAt(f, p) ==
    LET ph == f[p].v
        mh == f[p + 2].v
    IN  [topic |-> ph[1], valueid |-> ph[2], value |-> f[p + 1].v,
         extmem_size |-> mh[1], extmem_present |-> mh[2],
         extmem_size_compressed |-> IF Len(mh) > 2 THEN mh[3] ELSE 0,
         extmem_index |-> p + 3]

\* What the reader yields where a record cannot be framed.
Corrupt == [topic |-> "corrupt"]

\* Mutant: the ExtMem skipped by its uncompressed size.
ExtMemSkipRaw(rec) == rec.extmem_size

\* The bytes skipped over the ExtMem data: the compressed size if any.
ExtMemSkip(rec) ==
    IF rec.extmem_size_compressed = 0 THEN rec.extmem_size
    ELSE rec.extmem_size_compressed

\* Where the next record starts: a new Unpacker after seeking past ExtMem.
NextRecord(rec) ==
    IF rec.extmem_present THEN rec.extmem_index + ExtMemSkip(rec)
    ELSE rec.extmem_index

\* records_generator(filter) from cell p; F is the set of topics the
\* filter accepts.  OutOfData ends the sequence.
RECURSIVE GenerateFrom(_, _, _)
GenerateFrom(f, p, F) ==
    CASE Parse(f, p) = "OutOfData" -> <<>>
      [] Parse(f, p) = "Corrupt"   -> <<Corrupt>>
      [] OTHER ->
            LET rec == RecordAt(f, p) IN
            (IF rec.topic \in F THEN <<rec>> ELSE <<>>)
                \o GenerateFrom(f, NextRecord(rec), F)

records_generator(f, F) == GenerateFrom(f, 1, F)

\* index(filter): the start of each accepted record; 0 marks the
\* exception that ends index() on a corrupt stream.
RECURSIVE IndexFrom(_, _, _)
IndexFrom(f, p, F) ==
    CASE Parse(f, p) = "OutOfData" -> <<>>
      [] Parse(f, p) = "Corrupt"   -> <<0>>
      [] OTHER ->
            LET rec == RecordAt(f, p) IN
            (IF rec.topic \in F THEN <<p>> ELSE <<>>)
                \o IndexFrom(f, NextRecord(rec), F)

index(f, F) == IndexFrom(f, 1, F)

\* records(start_idx, end_idx) over the index ix (0-based idx): each
\* entry is read from a fresh seek; idx >= len(ix) or OutOfData ends it.
RECURSIVE RecordsFrom(_, _, _, _)
RecordsFrom(f, ix, idx, end_idx) ==
    IF idx >= end_idx \/ idx >= Len(ix) THEN <<>>
    ELSE CASE ix[idx + 1] = 0 \/ Parse(f, ix[idx + 1]) = "Corrupt" -> <<Corrupt>>
           [] Parse(f, ix[idx + 1]) = "OutOfData" -> <<>>
           [] OTHER -> <<RecordAt(f, ix[idx + 1])>>
                          \o RecordsFrom(f, ix, idx + 1, end_idx)

\* Mutant: end_idx taken as inclusive.
recordsEndInclusive(f, ix, start_idx, end_idx) ==
    IF start_idx < 0 \/ start_idx >= Len(ix) \/ end_idx < start_idx THEN <<>>
    ELSE RecordsFrom(f, ix, start_idx, end_idx + 1)

records(f, ix, start_idx, end_idx) ==
    IF start_idx < 0 \/ start_idx >= Len(ix) \/ end_idx < start_idx THEN <<>>
    ELSE RecordsFrom(f, ix, start_idx, end_idx)

\* file.read(n) at cell pos: what is there, short at the end of the file.
\* An object's bytes read as ExtMem are not a byte of the blob (-2).
Read(f, pos, n) ==
    [i \in 1..(IF pos + n - 1 <= Len(f) THEN n ELSE Len(f) - pos + 1) |->
        IF f[pos + i - 1].k = "raw" THEN f[pos + i - 1].v ELSE -2]

\* get_extmem(record): None when absent.
get_extmem(f, rec) ==
    IF ~rec.extmem_present THEN NoExtMem
    ELSE IF rec.extmem_size_compressed # 0
         THEN Decompress(Read(f, rec.extmem_index, rec.extmem_size_compressed))
         ELSE Bytes(Read(f, rec.extmem_index, rec.extmem_size))
=============================================================================
