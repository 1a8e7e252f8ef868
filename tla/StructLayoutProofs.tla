-------------------------- MODULE StructLayoutProofs --------------------------
(***************************************************************************)
(* Proofs about StructLayout, for any tags, member types, array lengths    *)
(* and number of members.                                                  *)
(***************************************************************************)
EXTENDS StructLayout, TLAPS

-------------------------------------------------------------------------------
\* What align_to computes, for the alignments there are.

LEMMA AlignToType ==
    ASSUME NEW n \in Nat, NEW a \in Alignment
    PROVE  align_to(n, a) \in Nat
<1>1. CASE a = 1
  BY <1>1 DEF align_to
<1>2. CASE a = 2
  BY <1>2 DEF align_to
<1>3. CASE a = 4
  BY <1>3 DEF align_to
<1>4. CASE a = 8
  BY <1>4 DEF align_to
<1> QED
  BY <1>1, <1>2, <1>3, <1>4 DEF Alignment

\* align_to rounds up to a multiple of the alignment, and no further.
THEOREM AlignToIsLeast ==
    ASSUME NEW n \in Nat, NEW a \in Alignment
    PROVE  LeastAligned(align_to(n, a), n, a)
<1>1. CASE a = 1
  BY <1>1 DEF align_to, LeastAligned
<1>2. CASE a = 2
  BY <1>2 DEF align_to, LeastAligned
<1>3. CASE a = 4
  BY <1>3 DEF align_to, LeastAligned
<1>4. CASE a = 8
  BY <1>4 DEF align_to, LeastAligned
<1> QED
  BY <1>1, <1>2, <1>3, <1>4 DEF Alignment

\* There is one such place only.
LEMMA LeastIsUnique ==
    ASSUME NEW n \in Nat, NEW a \in Alignment, NEW p \in Nat, NEW q \in Nat,
           LeastAligned(p, n, a), LeastAligned(q, n, a)
    PROVE  p = q
<1>1. CASE a = 1
  BY <1>1 DEF LeastAligned
<1>2. CASE a = 2
  BY <1>2 DEF LeastAligned
<1>3. CASE a = 4
  BY <1>3 DEF LeastAligned
<1>4. CASE a = 8
  BY <1>4 DEF LeastAligned
<1> QED
  BY <1>1, <1>2, <1>3, <1>4 DEF Alignment

\* Sizes are natural numbers and alignments are powers of two up to 8.
LEMMA BasicSizes ==
    ASSUME NEW b
    PROVE  /\ get_basic_type_size(b) \in {0, 1, 2, 4, 8}
           /\ get_basic_type_alignment(b) \in Alignment
  BY DEF get_basic_type_size, get_basic_type_alignment, Alignment

LEMMA SizeType ==
    ASSUME NEW ty \in MemberType
    PROVE  calculate_type_size(ty) \in Nat
<1>1. ty \in Type
  BY TypeAssumption
<1>2. get_basic_type_size(ty.base) \in {0, 1, 2, 4, 8}
  BY BasicSizes
<1>3. ASSUME ty.length # NoLength PROVE get_basic_type_size(ty.base) * ty.length \in Nat
  <2>1. ty.length \in Nat
    BY <1>1, <1>3, LengthAssumption DEF Type
  <2> QED
    BY <1>2, <2>1
<1> QED
  BY <1>2, <1>3 DEF calculate_type_size, POINTER_SIZE, INT_SIZE

LEMMA AlignmentType ==
    ASSUME NEW ty \in MemberType, max_alignment \in [Tag -> Alignment]
    PROVE  calculate_type_alignment(ty) \in Alignment
<1>1. IsKnown(ty) => max_alignment[ty.base] \in Alignment
  BY DEF IsKnown
<1>2. get_basic_type_alignment(ty.base) \in Alignment
  BY BasicSizes
<1> QED
  BY <1>1, <1>2 DEF calculate_type_alignment, POINTER_SIZE, INT_SIZE, Alignment

-------------------------------------------------------------------------------
\* The type invariant, with who is at work on which symbol.

Busy == {"members", "sized", "layout for member", "layout for end"}

Control ==
    /\ pc \in Busy => cur \in Tag /\ sym_type[cur] # "none"
    /\ Looping => on \in Tag /\ sym_type[on] # "none" /\ i \in 1 .. Len(members[on]) + 1
    /\ pc \in {"layout for member", "layout for end"} => on = cur
    /\ pc = "layout for member" => members[on] # <<>>
    /\ pc = "sized" => pending \in MemberType /\ pending.base \in Tag
    /\ pc = "layout for size" /\ pending # NoType =>
         /\ cur \in Tag /\ sym_type[cur] # "none"
         /\ pending.base \in Tag
    /\ pc \in {"idle", "members", "layout for member", "layout for end"} => pending = NoType
    /\ \A t \in Tag : sym_type[t] = "none" => members[t] = <<>>

TypeInv == TypeOK /\ Control

LEMMA LengthType ==
    ASSUME NEW S, NEW s \in Seq(S)
    PROVE  Len(s) \in Nat /\ 1 \in 1 .. Len(s) + 1
<1>1. Len(s) \in Nat
  OBVIOUS
<1> QED
  BY <1>1

LEMMA PutAtType ==
    ASSUME NEW seq \in Seq(Nat), NEW k \in 1 .. Len(seq), NEW v \in Nat
    PROVE  /\ PutAt(seq, k, v) \in Seq(Nat) /\ Len(PutAt(seq, k, v)) = Len(seq)
           /\ PutAt(seq, k, v)[k] = v
           /\ \A j \in 1 .. Len(seq) : j # k => PutAt(seq, k, v)[j] = seq[j]
<1>1. DOMAIN seq = 1 .. Len(seq) /\ Len(seq) \in Nat
  OBVIOUS
<1>2. \A j \in 1 .. Len(seq) : seq[j] \in Nat
  OBVIOUS
<1>3. PutAt(seq, k, v) = [j \in 1 .. Len(seq) |-> IF j = k THEN v ELSE seq[j]]
  BY <1>1 DEF PutAt
<1>4. PutAt(seq, k, v) \in Seq(Nat) /\ Len(PutAt(seq, k, v)) = Len(seq)
  BY <1>1, <1>2, <1>3
<1> QED
  BY <1>3, <1>4

LEMMA TypeInit == Init => TypeInv
<1> SUFFICES ASSUME Init PROVE TypeInv
  OBVIOUS
<1>1. /\ members = [t \in Tag |-> <<>>] /\ offset = [t \in Tag |-> <<>>]
      /\ sym_type = [t \in Tag |-> "none"] /\ total_size = [t \in Tag |-> 0]
      /\ max_alignment = [t \in Tag |-> 1]
  BY DEF Init
<1>2. /\ members \in [Tag -> Seq(MemberSymbol)] /\ offset \in [Tag -> Seq(Nat)]
      /\ \A t \in Tag : Len(offset[t]) = Len(members[t])
      /\ sym_type \in [Tag -> {"none", "STRUCT", "UNION"}]
      /\ total_size \in [Tag -> Nat] /\ max_alignment \in [Tag -> Alignment]
  BY <1>1 DEF Alignment
<1>3. TypeOK
  BY <1>2 DEF Init, TypeOK, Alignment
<1>4. Control
  BY <1>1 DEF Init, Control, Busy, Looping
<1> QED
  BY <1>3, <1>4 DEF TypeInv

\* A member the loop is at.
LEMMA MemberType_ ==
    ASSUME TypeInv, Looping, i <= Len(members[on])
    PROVE  /\ on \in Tag /\ i \in 1 .. Len(members[on]) /\ i \in 1 .. Len(offset[on])
           /\ Member \in MemberSymbol /\ Member.size \in Nat /\ Member.alignment \in Alignment
           /\ offset[on] \in Seq(Nat)
<1>1. /\ on \in Tag /\ i \in 1 .. Len(members[on]) + 1 /\ i \in Nat
      /\ members[on] \in Seq(MemberSymbol) /\ offset[on] \in Seq(Nat)
      /\ Len(offset[on]) = Len(members[on])
  BY DEF TypeInv, TypeOK, Control
<1>2. i \in 1 .. Len(members[on])
  BY <1>1
<1>3. members[on][i] \in MemberSymbol
  BY <1>1, <1>2
<1>4. Member.size \in Nat /\ Member.alignment \in Alignment
  BY <1>3 DEF Member, MemberSymbol
<1> QED
  BY <1>1, <1>2, <1>3, <1>4 DEF Member

LEMMA LargerAlignment ==
    ASSUME NEW a \in Alignment, NEW b \in Alignment
    PROVE  Larger(a, b) \in Alignment
  BY DEF Larger

\* Either step of the loop writes one offset of the symbol it is run on.
LEMMA LoopStepType ==
    ASSUME TypeInv, Looping, i <= Len(members[on]), NEW v \in Nat,
           offset' = [offset EXCEPT ![on] = PutAt(@, i, v)],
           size' \in Nat, align' = Larger(align, Member.alignment), i' = i + 1,
           UNCHANGED <<sym_type, members, total_size, max_alignment, cur, pending, on, pc>>
    PROVE  TypeInv'
<1>1. /\ on \in Tag /\ i \in 1 .. Len(members[on]) /\ i \in 1 .. Len(offset[on])
      /\ Member.alignment \in Alignment /\ offset[on] \in Seq(Nat)
  BY MemberType_
<1>2. /\ PutAt(offset[on], i, v) \in Seq(Nat)
      /\ Len(PutAt(offset[on], i, v)) = Len(offset[on])
  BY <1>1, PutAtType
<1>3. offset \in [Tag -> Seq(Nat)] /\ \A t \in Tag : Len(offset[t]) = Len(members[t])
  BY DEF TypeInv, TypeOK
<1>4. offset' \in [Tag -> Seq(Nat)] /\ \A t \in Tag : Len(offset'[t]) = Len(members[t])
  BY <1>1, <1>2, <1>3
<1>5. align' \in Alignment
  BY <1>1, LargerAlignment DEF TypeInv, TypeOK
<1>m. members[on] \in Seq(MemberSymbol)
  BY <1>1 DEF TypeInv, TypeOK
<1>7. i' \in 1 .. Len(members[on]) + 1 /\ i' \in Nat
  BY <1>1, <1>m
<1>6. TypeOK'
  BY <1>4, <1>5, <1>7 DEF TypeInv, TypeOK
<1>8. Control'
  BY <1>7 DEF TypeInv, Control, Looping
<1> QED
  BY <1>6, <1>8 DEF TypeInv

LEMMA LayoutEndType == TypeInv /\ LayoutEnd => TypeInv'
<1> SUFFICES ASSUME TypeInv, LayoutEnd PROVE TypeInv'
  OBVIOUS
<1>1. /\ on \in Tag /\ size \in Nat /\ align \in Alignment /\ align_to(size, align) \in Nat
      /\ total_size \in [Tag -> Nat] /\ max_alignment \in [Tag -> Alignment]
  BY AlignToType DEF TypeInv, TypeOK, Control, LayoutEnd
<1>2. /\ total_size' = [total_size EXCEPT ![on] = align_to(size, align)]
      /\ max_alignment' = [max_alignment EXCEPT ![on] = align]
      /\ pc' = AfterLoop /\ cur' = IF AfterLoop = "idle" THEN NoTag ELSE cur
      /\ UNCHANGED <<sym_type, members, offset, pending, on, i, size, align>>
      /\ pc \in {"layout for size", "layout for member", "layout for end"}
  BY DEF LayoutEnd, loop, Looping
<1>3. total_size' \in [Tag -> Nat] /\ max_alignment' \in [Tag -> Alignment]
  BY <1>1, <1>2
<1>4. pc' \in {"idle", "members", "sized"} /\ ~Looping'
  BY <1>2 DEF AfterLoop, Looping
<1>5. cur' \in Tag \cup {NoTag}
  BY <1>2 DEF TypeInv, TypeOK
<1>6. TypeOK'
  BY <1>2, <1>3, <1>4, <1>5 DEF TypeInv, TypeOK
<1>7. Control'
  <2>1. CASE pc' = "idle"
    <3>1. pending' = NoType
      BY <2>1, <1>2 DEF AfterLoop, TypeInv, Control
    <3> QED
      BY <3>1, <2>1, <1>2, <1>4 DEF TypeInv, Control, Busy
  <2>2. CASE pc' = "members"
    <3>1. pc = "layout for member" /\ cur' = cur /\ pending' = NoType
      BY <2>2, <1>2 DEF AfterLoop, TypeInv, Control
    <3> QED
      BY <3>1, <2>2, <1>2, <1>4 DEF TypeInv, Control, Busy
  <2>3. CASE pc' = "sized"
    <3>1. pc = "layout for size" /\ pending # NoType /\ cur' = cur
      BY <2>3, <1>2 DEF AfterLoop
    <3>2. pending \in MemberType
      BY <3>1 DEF TypeInv, TypeOK
    <3> QED
      BY <3>1, <3>2, <2>3, <1>2, <1>4 DEF TypeInv, Control, Busy
  <2> QED
    BY <2>1, <2>2, <2>3, <1>4
<1> QED
  BY <1>6, <1>7 DEF TypeInv

LEMMA DefineTagType ==
    ASSUME TypeInv, NEW t \in Tag, NEW kind \in {"STRUCT", "UNION"}, DefineTag(t, kind)
    PROVE  TypeInv'
<1>1. /\ sym_type' = [sym_type EXCEPT ![t] = kind] /\ cur' = t /\ pc' = "members"
      /\ UNCHANGED <<members, offset, total_size, max_alignment, pending, on, i, size, align>>
  BY DEF DefineTag, layout, loop
<1>2. /\ sym_type' \in [Tag -> {"none", "STRUCT", "UNION"}] /\ sym_type'[t] # "none"
      /\ \A u \in Tag : sym_type'[u] = "none" => sym_type[u] = "none"
  BY <1>1 DEF TypeInv, TypeOK
<1>3. TypeOK'
  BY <1>1, <1>2 DEF TypeInv, TypeOK
<1>4. pc = "idle" /\ pending = NoType
  BY DEF DefineTag, TypeInv, Control
<1>5. Control'
  BY <1>1, <1>2, <1>4 DEF TypeInv, Control, Looping, Busy
<1> QED
  BY <1>3, <1>5 DEF TypeInv

\* A loop begins on a symbol of the table.
LEMMA BeginType ==
    ASSUME TypeInv, NEW t \in Tag, NEW next, Begin(t, next)
    PROVE  /\ on' = t /\ i' = 1 /\ i' \in Nat /\ size' = 0 /\ size' \in Nat /\ align' = 1
           /\ align' \in Alignment /\ pc' = next
           /\ i \in Nat
  BY DEF Begin, Alignment, TypeInv, TypeOK

\* What add_struct_member appends.
LEMMA AddMemberType ==
    ASSUME TypeInv, NEW ty \in MemberType, NEW sz \in Nat, NEW al \in Alignment,
           cur \in Tag, AddMember(ty, sz, al)
    PROVE  /\ members' \in [Tag -> Seq(MemberSymbol)] /\ offset' \in [Tag -> Seq(Nat)]
           /\ members'[cur] = Append(members[cur], [type |-> ty, size |-> sz, alignment |-> al])
           /\ offset'[cur] = Append(offset[cur], 0)
           /\ \A t \in Tag : t # cur => members'[t] = members[t] /\ offset'[t] = offset[t]
           /\ \A t \in Tag : Len(offset'[t]) = Len(members'[t])
           /\ Len(members'[cur]) = Len(members[cur]) + 1
<1>1. [type |-> ty, size |-> sz, alignment |-> al] \in MemberSymbol
  BY DEF MemberSymbol
<1>2. /\ members \in [Tag -> Seq(MemberSymbol)] /\ offset \in [Tag -> Seq(Nat)]
      /\ \A t \in Tag : Len(offset[t]) = Len(members[t])
  BY DEF TypeInv, TypeOK
<1>3. members[cur] \in Seq(MemberSymbol) /\ offset[cur] \in Seq(Nat)
  BY <1>2
<1>4. /\ members' = [members EXCEPT ![cur] =
                        Append(members[cur], [type |-> ty, size |-> sz, alignment |-> al])]
      /\ offset' = [offset EXCEPT ![cur] = Append(offset[cur], 0)]
  BY DEF AddMember
<1>5. /\ Append(members[cur], [type |-> ty, size |-> sz, alignment |-> al]) \in Seq(MemberSymbol)
      /\ Append(offset[cur], 0) \in Seq(Nat)
      /\ Len(Append(members[cur], [type |-> ty, size |-> sz, alignment |-> al]))
            = Len(members[cur]) + 1
      /\ Len(Append(offset[cur], 0)) = Len(offset[cur]) + 1
  BY <1>1, <1>3
<1> QED
  BY <1>2, <1>4, <1>5

LEMMA AddedType ==
    ASSUME TypeInv, NEW ty \in MemberType, NEW sz \in Nat, NEW al \in Alignment,
           pc \in {"members", "sized"}, AddMember(ty, sz, al), pending' = NoType
    PROVE  TypeInv'
<1>1. cur \in Tag /\ sym_type[cur] # "none"
  BY DEF TypeInv, Control, Busy
<1>2. /\ members' \in [Tag -> Seq(MemberSymbol)] /\ offset' \in [Tag -> Seq(Nat)]
      /\ \A t \in Tag : Len(offset'[t]) = Len(members'[t])
      /\ \A t \in Tag : t # cur => members'[t] = members[t]
      /\ Len(members'[cur]) = Len(members[cur]) + 1
  BY <1>1, AddMemberType
<1>3. /\ on' = cur /\ i' = 1 /\ i' \in Nat /\ size' \in Nat /\ align' \in Alignment
      /\ pc' = "layout for member"
  BY <1>1, BeginType DEF AddMember
<1>4. UNCHANGED <<sym_type, total_size, max_alignment, cur>>
  BY DEF AddMember
<1>5. TypeOK'
  BY <1>2, <1>3, <1>4 DEF TypeInv, TypeOK
<1>m. members[cur] \in Seq(MemberSymbol)
  BY <1>1 DEF TypeInv, TypeOK
<1>6. Len(members[cur]) \in Nat
  BY <1>m
<1>n. Len(members'[cur]) \in Nat \ {0}
  BY <1>2, <1>6
<1>s. members'[cur] \in Seq(MemberSymbol)
  BY <1>1, <1>2
<1>r. 1 \in 1 .. Len(members'[cur]) + 1
  BY <1>s, LengthType
<1>7. i' \in 1 .. Len(members'[on']) + 1
  BY <1>3, <1>r
<1>e. members'[cur] # <<>>
  <2> SUFFICES ASSUME members'[cur] = <<>> PROVE FALSE
    OBVIOUS
  <2>1. Len(members'[cur]) = 0
    OBVIOUS
  <2> QED
    BY <2>1, <1>n
<1>8. Control'
  BY <1>1, <1>2, <1>3, <1>4, <1>7, <1>e DEF TypeInv, Control, Busy
<1> QED
  BY <1>5, <1>8 DEF TypeInv

LEMMA SimpleMemberType ==
    ASSUME TypeInv, NEW ty \in MemberType, AddSimpleMember(ty)
    PROVE  TypeInv'
<1>1. calculate_type_size(ty) \in Nat /\ calculate_type_alignment(ty) \in Alignment
  BY SizeType, AlignmentType DEF TypeInv, TypeOK
<1>2. pc = "members" /\ pending' = NoType
  BY DEF AddSimpleMember, TypeInv, Control
<1> QED
  BY <1>1, <1>2, AddedType DEF AddSimpleMember

LEMMA SizedMemberType ==
    ASSUME TypeInv, AddSizedMember
    PROVE  TypeInv'
<1>1. pending \in MemberType /\ pending.base \in Tag
  BY DEF TypeInv, Control, AddSizedMember
<1>2. total_size[pending.base] \in Nat /\ calculate_type_alignment(pending) \in Alignment
  BY <1>1, AlignmentType DEF TypeInv, TypeOK
<1> QED
  BY <1>1, <1>2, AddedType DEF AddSizedMember

\* The other three ways a layout begins.
LEMMA LayoutBegins ==
    ASSUME TypeInv, NEW t \in Tag, sym_type[t] # "none",
           NEW next \in {"layout for size", "layout for end"}, Begin(t, next),
           UNCHANGED <<sym_type, members, layout, cur>>,
           next = "layout for end" => t = cur /\ pending' = NoType,
           pending' \in MemberType \cup {NoType},
           pending' # NoType => pending'.base \in Tag /\ cur \in Tag /\ sym_type[cur] # "none"
    PROVE  TypeInv'
<1>1. /\ on' = t /\ i' = 1 /\ i' \in Nat /\ size' \in Nat /\ align' \in Alignment /\ pc' = next
  BY BeginType
<1>2. UNCHANGED <<sym_type, members, offset, total_size, max_alignment, cur>>
  BY DEF layout
<1>3. members[t] \in Seq(MemberSymbol)
  BY DEF TypeInv, TypeOK
<1>n. 1 \in 1 .. Len(members[t]) + 1
  BY <1>3, LengthType
<1>4. i' \in 1 .. Len(members[t]) + 1
  BY <1>1, <1>n
<1>5. TypeOK'
  BY <1>1, <1>2 DEF TypeInv, TypeOK
<1>6. Control'
  BY <1>1, <1>2, <1>4 DEF TypeInv, Control, Busy, Looping
<1> QED
  BY <1>5, <1>6 DEF TypeInv

LEMMA TypeStep == TypeInv /\ [Next]_vars => TypeInv'
<1> SUFFICES ASSUME TypeInv, [Next]_vars PROVE TypeInv'
  OBVIOUS
<1>1. ASSUME NEW ty \in MemberType, AskMemberSize(ty) PROVE TypeInv'
  <2>1. /\ ty.base \in Tag /\ sym_type[ty.base] # "none"
    BY <1>1 DEF AskMemberSize, IsKnown
  <2>2. cur \in Tag /\ sym_type[cur] # "none"
    BY <1>1 DEF AskMemberSize, TypeInv, Control, Busy
  <2>3. /\ Begin(ty.base, "layout for size") /\ pending' = ty
        /\ UNCHANGED <<sym_type, members, layout, cur>>
    BY <1>1 DEF AskMemberSize
  <2> QED
    BY <2>1, <2>2, <2>3, LayoutBegins
<1>2. CASE EndOfMembers
  <2>1. cur \in Tag /\ sym_type[cur] # "none" /\ pending' = NoType
    BY <1>2 DEF EndOfMembers, TypeInv, Control, Busy
  <2>2. Begin(cur, "layout for end") /\ UNCHANGED <<sym_type, members, layout, cur>>
    BY <1>2 DEF EndOfMembers
  <2> QED
    BY <2>1, <2>2, LayoutBegins
<1>3. ASSUME NEW t \in Tag, UseTag(t) PROVE TypeInv'
  <2>1. sym_type[t] # "none" /\ pending' = NoType
    BY <1>3 DEF UseTag, TypeInv, Control
  <2>2. Begin(t, "layout for size") /\ UNCHANGED <<sym_type, members, layout, cur>>
    BY <1>3 DEF UseTag
  <2> QED
    BY <2>1, <2>2, LayoutBegins
<1>4. CASE StructStep
  <2>1. Looping /\ i <= Len(members[on])
    BY <1>4 DEF StructStep
  <2>2. Member.size \in Nat /\ Member.alignment \in Alignment /\ size \in Nat
    BY <2>1, MemberType_ DEF TypeInv, TypeOK
  <2>3. align_to(size, Member.alignment) \in Nat
    BY <2>2, AlignToType
  <2>4. align_to(size, Member.alignment) + Member.size \in Nat
    BY <2>2, <2>3
  <2> QED
    BY <1>4, <2>1, <2>3, <2>4, LoopStepType DEF StructStep
<1>5. CASE UnionStep
  <2>1. Looping /\ i <= Len(members[on])
    BY <1>5 DEF UnionStep
  <2>2. Member.size \in Nat /\ size \in Nat
    BY <2>1, MemberType_ DEF TypeInv, TypeOK
  <2>3. Larger(size, Member.size) \in Nat
    BY <2>2 DEF Larger
  <2> QED
    BY <1>5, <2>1, <2>3, LoopStepType DEF UnionStep
<1>6. CASE UNCHANGED vars
  <2>1. /\ UNCHANGED <<sym_type, members, offset, total_size, max_alignment, cur, pending>>
        /\ UNCHANGED <<on, i, size, align, pc>>
    BY <1>6 DEF vars, layout, loop
  <2>2. TypeOK'
    BY <2>1 DEF TypeInv, TypeOK
  <2>3. Control'
    BY <2>1 DEF TypeInv, Control, Looping
  <2> QED
    BY <2>2, <2>3 DEF TypeInv
<1> QED
  BY <1>1, <1>2, <1>3, <1>4, <1>5, <1>6, LayoutEndType, DefineTagType,
     SimpleMemberType, SizedMemberType DEF Next

\* Offsets, sizes and alignments are numbers, every alignment a power of two, and
\* there is one offset for each member, whatever asks for a layout and when.
THEOREM TypeCorrect == Spec => []TypeOK
<1>1. TypeInv => TypeOK
  BY DEF TypeInv
<1> QED
  BY <1>1, TypeInit, TypeStep, PTL DEF Spec

-------------------------------------------------------------------------------
\* The layout of a struct.  A member that was just added has no place until the
\* loop has come by; every other one has the place the loop would give it again.

InPlace(t, k) ==
    LeastAligned(offset[t][k], EndOf(t, k - 1), members[t][k].alignment)

Placed == \A t \in Tag : sym_type[t] = "STRUCT" =>
    \A k \in 1 .. Len(members[t]) : InPlace(t, k) \/ (IsFresh(t, k) /\ i <= k)

Summed == Looping /\ sym_type[on] = "STRUCT" =>
    size = EndOf(on, i - 1) /\ IsLargest(align, on, i - 1)

Finished(t) ==
    /\ IsLargest(max_alignment[t], t, Len(members[t]))
    /\ LeastAligned(total_size[t], EndOf(t, Len(members[t])), max_alignment[t])

Computed == \A t \in Tag :
    sym_type[t] = "STRUCT" /\ ~(Looping /\ on = t) => Finished(t)

Unused == \A t \in Tag : sym_type[t] = "none" =>
    members[t] = <<>> /\ total_size[t] = 0 /\ max_alignment[t] = 1

Overlaid == \A t \in Tag : sym_type[t] = "UNION" =>
    \A k \in 1 .. Len(members[t]) : offset[t][k] = 0

LayoutInv == TypeInv /\ Placed /\ Summed /\ Computed /\ Unused /\ Overlaid

LEMMA LayoutInit == Init => LayoutInv
<1> SUFFICES ASSUME Init PROVE LayoutInv
  OBVIOUS
<1>1. \A t \in Tag : /\ sym_type[t] = "none" /\ members[t] = <<>>
                     /\ total_size[t] = 0 /\ max_alignment[t] = 1
  BY DEF Init
<1>2. ~Looping
  BY DEF Init, Looping
<1>3. Placed /\ Summed /\ Computed /\ Unused /\ Overlaid
  BY <1>1, <1>2 DEF Placed, Summed, Computed, Unused, Overlaid
<1> QED
  BY <1>3, TypeInit DEF LayoutInv

\* A step that leaves the members of a symbol alone leaves its layout alone.
LEMMA Frame ==
    ASSUME NEW t \in Tag, members'[t] = members[t], offset'[t] = offset[t]
    PROVE  /\ \A k : InPlace(t, k)' <=> InPlace(t, k)
           /\ \A n : EndOf(t, n)' = EndOf(t, n)
           /\ \A a, n : IsLargest(a, t, n)' <=> IsLargest(a, t, n)
           /\ total_size'[t] = total_size[t] /\ max_alignment'[t] = max_alignment[t]
                 => (Finished(t)' <=> Finished(t))
  BY DEF InPlace, EndOf, IsLargest, Finished

\* At the head of the loop nothing is summed up and no alignment is seen.
LEMMA AtHead ==
    ASSUME i' = 1, size' = 0, align' = 1
    PROVE  Summed'
<1>1. 1 - 1 = 0
  OBVIOUS
<1>2. i' - 1 = 0
  BY <1>1
<1>3. EndOf(on, 0)' = 0
  BY DEF EndOf
<1>4. \A k : k \notin 1 .. 0
  OBVIOUS
<1>5. IsLargest(align, on, 0)'
  BY <1>4 DEF IsLargest
<1> QED
  BY <1>2, <1>3, <1>5 DEF Summed

-------------------------------------------------------------------------------
\* An iteration over a struct gives the member a least place.  A member that had
\* one keeps it.
LEMMA StructStepPlaces ==
    ASSUME LayoutInv, StructStep
    PROVE  /\ \A k \in 1 .. Len(members[on]) : k # i => offset'[on][k] = offset[on][k]
           /\ LeastAligned(offset'[on][i], size, Member.alignment)
           /\ size' = offset'[on][i] + Member.size
           /\ ~IsFresh(on, i) => offset'[on][i] = offset[on][i]
           /\ \A t \in Tag : t # on => offset'[t] = offset[t]
<1>1. Looping /\ sym_type[on] = "STRUCT" /\ i <= Len(members[on])
  BY DEF StructStep
<1>2. /\ on \in Tag /\ i \in 1 .. Len(members[on]) /\ i \in 1 .. Len(offset[on])
      /\ Member.size \in Nat /\ Member.alignment \in Alignment /\ offset[on] \in Seq(Nat)
  BY <1>1, MemberType_ DEF LayoutInv
<1>3. size \in Nat /\ offset \in [Tag -> Seq(Nat)] /\ Len(offset[on]) = Len(members[on])
  BY <1>2 DEF LayoutInv, TypeInv, TypeOK
<1> DEFINE start == align_to(size, Member.alignment)
<1>4. start \in Nat /\ LeastAligned(start, size, Member.alignment)
  BY <1>2, <1>3, AlignToType, AlignToIsLeast
<1>5. /\ offset' = [offset EXCEPT ![on] = PutAt(offset[on], i, start)]
      /\ size' = start + Member.size
  BY DEF StructStep
<1> HIDE DEF start
<1>6. /\ PutAt(offset[on], i, start)[i] = start
      /\ \A k \in 1 .. Len(members[on]) :
            k # i => PutAt(offset[on], i, start)[k] = offset[on][k]
  BY <1>2, <1>3, <1>4, PutAtType
<1>7. /\ offset'[on] = PutAt(offset[on], i, start)
      /\ \A t \in Tag : t # on => offset'[t] = offset[t]
  BY <1>2, <1>3, <1>5
<1>8. ASSUME ~IsFresh(on, i) PROVE start = offset[on][i]
  <2>1. InPlace(on, i) /\ size = EndOf(on, i - 1)
    BY <1>1, <1>2, <1>8 DEF LayoutInv, Placed, Summed
  <2>2. LeastAligned(offset[on][i], size, Member.alignment)
    BY <2>1 DEF InPlace, Member
  <2>3. offset[on][i] \in Nat
    BY <1>2
  <2> QED
    BY <1>2, <1>3, <1>4, <2>2, <2>3, LeastIsUnique
<1> QED
  BY <1>4, <1>5, <1>6, <1>7, <1>8

LEMMA LargestGrows ==
    ASSUME NEW t, NEW n \in Nat, NEW a \in Alignment, IsLargest(a, t, n),
           \A k \in 1 .. n + 1 : members[t][k].alignment \in Alignment
    PROVE  IsLargest(Larger(a, members[t][n + 1].alignment), t, n + 1)
<1> DEFINE al(k) == members[t][k].alignment
           b == al(n + 1)
<1>1. /\ \A k \in 1 .. n + 1 : k = n + 1 \/ k \in 1 .. n
      /\ \A k \in 1 .. n : k \in 1 .. n + 1
      /\ n + 1 \in 1 .. n + 1
  OBVIOUS
<1>2. \A x \in Alignment : x \in Nat /\ x >= 1
  BY DEF Alignment
<1>3. \A k \in 1 .. n + 1 : al(k) \in Nat /\ al(k) >= 1
  BY <1>2
<1>4. a \in Nat /\ b \in Nat /\ b >= 1
  BY <1>1, <1>2, <1>3
<1>5. /\ \A k \in 1 .. n : al(k) <= a
      /\ a = 1 \/ \E k \in 1 .. n : al(k) = a
  BY DEF IsLargest
<1>6. SUFFICES /\ \A k \in 1 .. n + 1 : al(k) <= Larger(a, b)
               /\ Larger(a, b) = 1 \/ \E k \in 1 .. n + 1 : al(k) = Larger(a, b)
  BY DEF IsLargest
<1>7. b = al(n + 1)
  OBVIOUS
<1> HIDE DEF b, al
<1>8. CASE a > b
  <2>1. Larger(a, b) = a /\ b <= a
    BY <1>4, <1>8 DEF Larger
  <2> QED
    BY <1>1, <1>5, <1>7, <2>1
<1>9. CASE ~(a > b)
  <2>1. Larger(a, b) = b /\ a <= b
    BY <1>4, <1>9 DEF Larger
  <2>2. \A k \in 1 .. n : al(k) <= b
    BY <1>1, <1>3, <1>4, <1>5, <2>1
  <2>3. b <= b
    BY <1>4
  <2> QED
    BY <1>1, <1>7, <2>1, <2>2, <2>3
<1> QED
  BY <1>8, <1>9

LEMMA StructStepLays == LayoutInv /\ StructStep /\ TypeInv' => LayoutInv'
<1> SUFFICES ASSUME LayoutInv, StructStep, TypeInv' PROVE LayoutInv'
  OBVIOUS
<1>1. /\ Looping /\ sym_type[on] = "STRUCT" /\ i <= Len(members[on])
      /\ i' = i + 1 /\ align' = Larger(align, Member.alignment)
      /\ UNCHANGED <<sym_type, members, total_size, max_alignment, on, pc>>
  BY DEF StructStep
<1>2. /\ on \in Tag /\ i \in 1 .. Len(members[on]) /\ Member.alignment \in Alignment
      /\ i \in Nat /\ i >= 1 /\ Len(members[on]) \in Nat /\ align \in Alignment
  <2>1. on \in Tag /\ i \in 1 .. Len(members[on]) /\ Member.alignment \in Alignment
    BY <1>1, MemberType_ DEF LayoutInv
  <2>2. members[on] \in Seq(MemberSymbol) /\ align \in Alignment
    BY <2>1 DEF LayoutInv, TypeInv, TypeOK
  <2>3. Len(members[on]) \in Nat
    BY <2>2, LengthType
  <2> QED
    BY <2>1, <2>2, <2>3
<1>3. /\ \A k \in 1 .. Len(members[on]) : k # i => offset'[on][k] = offset[on][k]
      /\ LeastAligned(offset'[on][i], size, Member.alignment)
      /\ size' = offset'[on][i] + Member.size
      /\ \A t \in Tag : t # on => offset'[t] = offset[t]
  BY StructStepPlaces
<1>4. size = EndOf(on, i - 1) /\ IsLargest(align, on, i - 1)
  BY <1>1 DEF LayoutInv, Summed
<1>5. \A k \in 1 .. Len(members[on]) : k # i + 1 => EndOf(on, k - 1)' = EndOf(on, k - 1)
  <2> SUFFICES ASSUME NEW k \in 1 .. Len(members[on]), k # i + 1
               PROVE  EndOf(on, k - 1)' = EndOf(on, k - 1)
    OBVIOUS
  <2>1. k - 1 = 0 \/ (k - 1 \in 1 .. Len(members[on]) /\ k - 1 # i)
    BY <1>2
  <2> QED
    BY <1>1, <1>3, <2>1 DEF EndOf
<1>6. Placed'
  <2> SUFFICES ASSUME NEW t \in Tag, sym_type[t] = "STRUCT", NEW k \in 1 .. Len(members[t])
               PROVE  InPlace(t, k)' \/ (IsFresh(t, k)' /\ i' <= k)
    BY <1>1 DEF Placed
  <2>1. InPlace(t, k) \/ (IsFresh(t, k) /\ i <= k)
    BY DEF LayoutInv, Placed
  <2>2. CASE t # on
    BY <2>1, <2>2, <1>1, <1>3, Frame DEF IsFresh
  <2>3. CASE t = on /\ k = i
    <3>1. k # i + 1 /\ k \in 1 .. Len(members[on])
      BY <2>3, <1>2
    <3>2. EndOf(on, k - 1)' = EndOf(on, k - 1)
      BY <3>1, <1>5
    <3>3. EndOf(on, k - 1)' = size
      BY <3>2, <2>3, <1>4
    <3>4. LeastAligned(offset'[on][k], size, members[on][k].alignment)
      BY <2>3, <1>3 DEF Member
    <3>5. InPlace(on, k)'
      BY <3>3, <3>4, <1>1 DEF InPlace
    <3> QED
      BY <3>5, <2>3, <1>1
  <2>4. CASE t = on /\ k = i + 1
    <3>0. i # Len(members[on])
      <4>1. k \in 1 .. Len(members[on])
        BY <2>4
      <4> QED
        BY <4>1, <2>4, <1>2
    <3>1. ~IsFresh(on, i)
      BY <3>0 DEF IsFresh
    <3>2. offset'[on] [k] = offset[on][k] /\ offset'[on][i] = offset[on][i]
      BY <3>1, <2>4, <1>2, <1>3, StructStepPlaces
    <3>3. EndOf(on, k - 1)' = EndOf(on, k - 1)
      <4>1. k - 1 = i /\ i # 0
        BY <2>4, <1>2
      <4> QED
        BY <4>1, <3>2, <1>1 DEF EndOf
    <3>4. InPlace(on, k)' <=> InPlace(on, k)
      BY <3>2, <3>3, <1>1 DEF InPlace
    <3>5. IsFresh(t, k)' <=> IsFresh(t, k)
      BY <1>1 DEF IsFresh
    <3>6. i' <= k
      BY <2>4, <1>1, <1>2
    <3>7. InPlace(t, k)' <=> InPlace(t, k)
      BY <3>4, <2>4, <1>1 DEF InPlace
    <3> QED
      BY <3>5, <3>6, <3>7, <2>1
  <2>5. CASE t = on /\ k # i /\ k # i + 1
    <3>1. InPlace(t, k)' <=> InPlace(t, k)
      BY <2>5, <1>1, <1>3, <1>5 DEF InPlace
    <3>2. i <= k => i' <= k
      BY <2>5, <1>1, <1>2
    <3>3. IsFresh(t, k)' <=> IsFresh(t, k)
      BY <1>1 DEF IsFresh
    <3> QED
      BY <3>1, <3>2, <3>3, <2>1
  <2> QED
    BY <2>2, <2>3, <2>4, <2>5
<1>7. Summed'
  <2> PICK n \in Nat : n = i
    BY <1>2
  <2>1. i' - 1 = n /\ n # 0 /\ n - 1 \in Nat /\ (n - 1) + 1 = n
    BY <1>1, <1>2
  <2>2. size' = EndOf(on, n)'
    BY <2>1, <1>1, <1>3 DEF EndOf, Member
  <2>3. \A k \in 1 .. (n - 1) + 1 : members[on][k].alignment \in Alignment
    <3>1. members[on] \in Seq(MemberSymbol)
      BY <1>2 DEF LayoutInv, TypeInv, TypeOK
    <3>2. \A k \in 1 .. Len(members[on]) : members[on][k] \in MemberSymbol
      BY <3>1
    <3>3. \A k \in 1 .. (n - 1) + 1 : k \in 1 .. Len(members[on])
      BY <1>2
    <3> QED
      BY <3>2, <3>3 DEF MemberSymbol
  <2>4. IsLargest(Larger(align, members[on][n].alignment), on, n)
    <3>1. IsLargest(align, on, n - 1)
      BY <1>4
    <3> QED
      BY <3>1, <2>1, <2>3, <1>2, LargestGrows
  <2>5. align' = Larger(align, members[on][n].alignment)
    BY <1>1 DEF Member
  <2>6. IsLargest(align, on, n)'
    BY <2>4, <2>5, <1>1 DEF IsLargest
  <2> QED
    BY <2>1, <2>2, <2>6 DEF Summed
<1>8. Computed'
  <2> SUFFICES ASSUME NEW t \in Tag, sym_type[t] = "STRUCT", t # on PROVE Finished(t)'
    BY <1>1 DEF Computed, Looping
  <2>1. Finished(t)
    BY DEF LayoutInv, Computed
  <2> QED
    BY <2>1, <1>1, <1>3, Frame
<1>9. Unused' /\ Overlaid'
  <2>1. \A t \in Tag : sym_type[t] = "UNION" => t # on
    BY <1>1
  <2> QED
    BY <2>1, <1>1, <1>3 DEF LayoutInv, Unused, Overlaid
<1> QED
  BY <1>6, <1>7, <1>8, <1>9 DEF LayoutInv

\* An iteration over a union puts the member at 0.
LEMMA UnionStepPlaces ==
    ASSUME LayoutInv, UnionStep
    PROVE  /\ \A k \in 1 .. Len(members[on]) : offset'[on][k] = offset[on][k]
           /\ \A t \in Tag : t # on => offset'[t] = offset[t]
<1>1. Looping /\ sym_type[on] = "UNION" /\ i <= Len(members[on])
  BY DEF UnionStep
<1>2. /\ on \in Tag /\ i \in 1 .. Len(members[on]) /\ i \in 1 .. Len(offset[on])
      /\ offset[on] \in Seq(Nat)
  BY <1>1, MemberType_ DEF LayoutInv
<1>3. offset \in [Tag -> Seq(Nat)] /\ Len(offset[on]) = Len(members[on])
  BY <1>2 DEF LayoutInv, TypeInv, TypeOK
<1>4. offset' = [offset EXCEPT ![on] = PutAt(offset[on], i, 0)]
  BY DEF UnionStep
<1>5. /\ PutAt(offset[on], i, 0)[i] = 0
      /\ \A k \in 1 .. Len(members[on]) :
            k # i => PutAt(offset[on], i, 0)[k] = offset[on][k]
  BY <1>2, <1>3, PutAtType
<1>6. offset[on][i] = 0
  BY <1>1, <1>2 DEF LayoutInv, Overlaid
<1>7. /\ offset'[on] = PutAt(offset[on], i, 0)
      /\ \A t \in Tag : t # on => offset'[t] = offset[t]
  BY <1>2, <1>3, <1>4
<1> QED
  BY <1>5, <1>6, <1>7

LEMMA UnionStepLays == LayoutInv /\ UnionStep /\ TypeInv' => LayoutInv'
<1> SUFFICES ASSUME LayoutInv, UnionStep, TypeInv' PROVE LayoutInv'
  OBVIOUS
<1>1. /\ Looping /\ sym_type[on] = "UNION"
      /\ UNCHANGED <<sym_type, members, total_size, max_alignment, on, pc>>
  BY DEF UnionStep
<1>2. /\ \A k \in 1 .. Len(members[on]) : offset'[on][k] = offset[on][k]
      /\ \A t \in Tag : t # on => offset'[t] = offset[t]
  BY UnionStepPlaces
<1>3. \A t \in Tag : sym_type[t] = "STRUCT" => t # on
  BY <1>1
<1>4. Placed'
  <2> SUFFICES ASSUME NEW t \in Tag, sym_type[t] = "STRUCT", NEW k \in 1 .. Len(members[t])
               PROVE  InPlace(t, k)'
    BY <1>1 DEF Placed
  <2>1. InPlace(t, k)
    BY <1>3 DEF LayoutInv, Placed, IsFresh
  <2> QED
    BY <2>1, <1>1, <1>2, <1>3, Frame
<1>5. Summed'
  BY <1>1 DEF Summed
<1>6. Computed'
  <2> SUFFICES ASSUME NEW t \in Tag, sym_type[t] = "STRUCT" PROVE Finished(t)'
    BY <1>1 DEF Computed
  <2>1. Finished(t)
    BY <1>3 DEF LayoutInv, Computed
  <2> QED
    BY <2>1, <1>1, <1>2, <1>3, Frame
<1>7. Unused' /\ Overlaid'
  BY <1>1, <1>2 DEF LayoutInv, Unused, Overlaid
<1> QED
  BY <1>4, <1>5, <1>6, <1>7 DEF LayoutInv

\* At the end of the loop every member has its place, and the sums are those of
\* all the members.
LEMMA LayoutEndLays == LayoutInv /\ LayoutEnd /\ TypeInv' => LayoutInv'
<1> SUFFICES ASSUME LayoutInv, LayoutEnd, TypeInv' PROVE LayoutInv'
  OBVIOUS
<1>1. /\ Looping /\ i > Len(members[on])
      /\ total_size' = [total_size EXCEPT ![on] = align_to(size, align)]
      /\ max_alignment' = [max_alignment EXCEPT ![on] = align]
      /\ UNCHANGED <<sym_type, members, offset, pending, on, i, size, align>>
  BY DEF LayoutEnd, loop
<1>2. ~Looping' /\ pc' # "layout for member"
  BY DEF LayoutEnd, AfterLoop, Looping
<1>3. /\ on \in Tag /\ sym_type[on] # "none" /\ size \in Nat /\ align \in Alignment
      /\ total_size \in [Tag -> Nat] /\ max_alignment \in [Tag -> Alignment]
      /\ i - 1 = Len(members[on])
  <2>1. on \in Tag /\ i \in 1 .. Len(members[on]) + 1 /\ i \in Nat /\ sym_type[on] # "none"
    BY <1>1 DEF LayoutInv, TypeInv, TypeOK, Control
  <2>2. members[on] \in Seq(MemberSymbol)
    BY <2>1 DEF LayoutInv, TypeInv, TypeOK
  <2>3. Len(members[on]) \in Nat
    BY <2>2, LengthType
  <2>4. i - 1 = Len(members[on])
    BY <2>1, <2>3, <1>1
  <2> QED
    BY <2>1, <2>4 DEF LayoutInv, TypeInv, TypeOK
<1>4. /\ total_size'[on] = align_to(size, align) /\ max_alignment'[on] = align
      /\ \A t \in Tag : t # on =>
            total_size'[t] = total_size[t] /\ max_alignment'[t] = max_alignment[t]
  BY <1>1, <1>3
<1>5. Placed'
  <2> SUFFICES ASSUME NEW t \in Tag, sym_type[t] = "STRUCT", NEW k \in 1 .. Len(members[t])
               PROVE  InPlace(t, k)
    BY <1>1, <1>2, Frame DEF Placed
  <2>1. InPlace(t, k) \/ (IsFresh(t, k) /\ i <= k)
    BY DEF LayoutInv, Placed
  <2>2. ~(t = on /\ i <= k)
    <3> SUFFICES ASSUME t = on, i <= k PROVE FALSE
      OBVIOUS
    <3>1. k \in 1 .. Len(members[on]) /\ i \in Nat /\ Len(members[on]) \in Nat
      <4>1. members[on] \in Seq(MemberSymbol) /\ i \in Nat
        BY <1>3 DEF LayoutInv, TypeInv, TypeOK
      <4> QED
        BY <4>1, LengthType
    <3> QED
      BY <3>1, <1>1
  <2> QED
    BY <2>1, <2>2 DEF IsFresh
<1>6. Summed'
  BY <1>2 DEF Summed
<1>7. Computed'
  <2> SUFFICES ASSUME NEW t \in Tag, sym_type[t] = "STRUCT" PROVE Finished(t)'
    BY <1>1 DEF Computed
  <2>1. CASE t = on
    <3>1. size = EndOf(on, Len(members[on])) /\ IsLargest(align, on, Len(members[on]))
      BY <2>1, <1>1, <1>3 DEF LayoutInv, Summed
    <3>2. LeastAligned(align_to(size, align), size, align)
      BY <1>3, AlignToIsLeast
    <3>3. /\ IsLargest(max_alignment'[t], t, Len(members[t]))
          /\ LeastAligned(total_size'[t], EndOf(t, Len(members[t])), max_alignment'[t])
      BY <2>1, <3>1, <3>2, <1>4
    <3> QED
      BY <3>3, <1>1 DEF Finished, IsLargest, EndOf, LeastAligned
  <2>2. CASE t # on
    <3>1. Finished(t)
      BY <2>2 DEF LayoutInv, Computed
    <3> QED
      BY <3>1, <2>2, <1>1, <1>4, Frame
  <2> QED
    BY <2>1, <2>2
<1>8. Unused' /\ Overlaid'
  <2>1. \A t \in Tag : sym_type[t] = "none" => t # on
    BY <1>3
  <2> QED
    BY <2>1, <1>1, <1>4 DEF LayoutInv, Unused, Overlaid
<1> QED
  BY <1>5, <1>6, <1>7, <1>8 DEF LayoutInv

\* Wherever no member is fresh, a layout may begin on any symbol.
LEMMA BeginLays ==
    ASSUME LayoutInv, TypeInv', ~Looping, NEW t \in Tag,
           NEW next \in {"layout for size", "layout for end"}, Begin(t, next),
           UNCHANGED <<sym_type, members, layout>>
    PROVE  LayoutInv'
<1>1. /\ on' = t /\ i' = 1 /\ size' = 0 /\ align' = 1 /\ pc' = next
      /\ UNCHANGED <<sym_type, members, offset, total_size, max_alignment>>
  BY DEF Begin, layout
<1>2. Placed'
  <2> SUFFICES ASSUME NEW u \in Tag, sym_type[u] = "STRUCT", NEW k \in 1 .. Len(members[u])
               PROVE  InPlace(u, k)'
    BY <1>1 DEF Placed
  <2>1. InPlace(u, k)
    BY DEF LayoutInv, Placed, IsFresh, Looping
  <2> QED
    BY <2>1, <1>1, Frame
<1>3. Summed'
  BY <1>1, AtHead
<1>4. Computed'
  <2> SUFFICES ASSUME NEW u \in Tag, sym_type[u] = "STRUCT" PROVE Finished(u)'
    BY <1>1 DEF Computed
  <2>1. Finished(u)
    BY DEF LayoutInv, Computed
  <2> QED
    BY <2>1, <1>1, Frame
<1>5. Unused' /\ Overlaid'
  BY <1>1 DEF LayoutInv, Unused, Overlaid
<1> QED
  BY <1>2, <1>3, <1>4, <1>5 DEF LayoutInv

\* A new member is fresh: the loop begins on its struct.
LEMMA AddMemberLays ==
    ASSUME LayoutInv, TypeInv', pc \in {"members", "sized"},
           NEW ty \in MemberType, NEW sz \in Nat, NEW al \in Alignment, AddMember(ty, sz, al)
    PROVE  LayoutInv'
<1>1. cur \in Tag /\ sym_type[cur] # "none" /\ ~Looping
  BY DEF LayoutInv, TypeInv, Control, Busy, Looping
<1>2. /\ on' = cur /\ i' = 1 /\ size' = 0 /\ align' = 1 /\ pc' = "layout for member"
      /\ UNCHANGED <<sym_type, total_size, max_alignment>>
      /\ Looping'
  BY DEF AddMember, Begin, Looping
<1>3. /\ members'[cur] = Append(members[cur], [type |-> ty, size |-> sz, alignment |-> al])
      /\ offset'[cur] = Append(offset[cur], 0)
      /\ \A t \in Tag : t # cur => members'[t] = members[t] /\ offset'[t] = offset[t]
      /\ Len(members'[cur]) = Len(members[cur]) + 1
  BY <1>1, AddMemberType DEF LayoutInv
<1>4. /\ members[cur] \in Seq(MemberSymbol) /\ offset[cur] \in Seq(Nat)
      /\ Len(offset[cur]) = Len(members[cur]) /\ Len(members[cur]) \in Nat
  <2>1. /\ members[cur] \in Seq(MemberSymbol) /\ offset[cur] \in Seq(Nat)
        /\ Len(offset[cur]) = Len(members[cur])
    BY <1>1 DEF LayoutInv, TypeInv, TypeOK
  <2> QED
    BY <2>1, LengthType
<1>5. \A k \in 1 .. Len(members[cur]) :
          members'[cur][k] = members[cur][k] /\ offset'[cur][k] = offset[cur][k]
  BY <1>3, <1>4
<1>6. offset'[cur][Len(members[cur]) + 1] = 0
  BY <1>3, <1>4
<1>7. Placed'
  <2> SUFFICES ASSUME NEW t \in Tag, sym_type[t] = "STRUCT", NEW k \in 1 .. Len(members'[t])
               PROVE  InPlace(t, k)' \/ (IsFresh(t, k)' /\ i' <= k)
    BY <1>2 DEF Placed
  <2>1. \A j \in 1 .. Len(members[t]) : InPlace(t, j)
    BY <1>1 DEF LayoutInv, Placed, IsFresh, Looping
  <2>2. CASE t # cur
    BY <2>1, <2>2, <1>3, Frame
  <2>3. CASE t = cur /\ k \in 1 .. Len(members[cur])
    <3>1. InPlace(cur, k)
      BY <2>1, <2>3
    <3>2. k - 1 = 0 \/ k - 1 \in 1 .. Len(members[cur])
      BY <2>3, <1>4
    <3>3. EndOf(cur, k - 1)' = EndOf(cur, k - 1)
      <4>1. UNCHANGED cur
        BY DEF AddMember
      <4> QED
        BY <4>1, <3>2, <1>5 DEF EndOf
    <3>4. UNCHANGED cur
      BY DEF AddMember
    <3>5. InPlace(cur, k)'
      BY <3>1, <3>3, <3>4, <2>3, <1>5 DEF InPlace
    <3> QED
      BY <3>4, <3>5, <2>3
  <2>4. CASE t = cur /\ k \notin 1 .. Len(members[cur])
    <3>1. k \in 1 .. Len(members[cur]) + 1
      BY <2>4, <1>3
    <3>2. k = Len(members'[cur]) /\ 1 <= k
      BY <3>1, <2>4, <1>3, <1>4
    <3> QED
      BY <3>2, <2>4, <1>2 DEF IsFresh
  <2> QED
    BY <2>2, <2>3, <2>4
<1>8. Summed'
  BY <1>2, AtHead
<1>9. Computed'
  <2> SUFFICES ASSUME NEW t \in Tag, sym_type[t] = "STRUCT", t # cur PROVE Finished(t)'
    BY <1>2 DEF Computed
  <2>1. Finished(t)
    BY <1>1 DEF LayoutInv, Computed
  <2> QED
    BY <2>1, <1>2, <1>3, Frame
<1>10. Unused'
  BY <1>1, <1>2, <1>3 DEF LayoutInv, Unused
<1>11. Overlaid'
  <2> SUFFICES ASSUME NEW t \in Tag, sym_type[t] = "UNION", NEW k \in 1 .. Len(members'[t])
               PROVE  offset'[t][k] = 0
    BY <1>2 DEF Overlaid
  <2>1. \A j \in 1 .. Len(members[t]) : offset[t][j] = 0
    BY DEF LayoutInv, Overlaid
  <2>2. CASE t # cur
    BY <2>1, <2>2, <1>3
  <2>3. CASE t = cur
    <3>1. k \in 1 .. Len(members[cur]) + 1
      BY <2>3, <1>3
    <3>2. k \in 1 .. Len(members[cur]) \/ k = Len(members[cur]) + 1
      <4>1. Len(members[cur]) \in Nat
        BY <1>4
      <4> QED
        BY <3>1, <4>1
    <3> QED
      BY <3>2, <2>1, <2>3, <1>5, <1>6
  <2> QED
    BY <2>2, <2>3
<1> QED
  BY <1>7, <1>8, <1>9, <1>10, <1>11 DEF LayoutInv

\* A new tag has no members.
LEMMA DefineTagLays ==
    ASSUME LayoutInv, TypeInv', NEW t \in Tag, NEW kind \in {"STRUCT", "UNION"},
           DefineTag(t, kind)
    PROVE  LayoutInv'
<1>1. /\ sym_type[t] = "none" /\ sym_type' = [sym_type EXCEPT ![t] = kind]
      /\ UNCHANGED <<members, offset, total_size, max_alignment>>
      /\ ~Looping /\ ~Looping'
  BY DEF DefineTag, layout, Looping
<1>2. /\ \A u \in Tag : u # t => sym_type'[u] = sym_type[u]
      /\ sym_type'[t] # "none"
  BY <1>1 DEF LayoutInv, TypeInv, TypeOK
<1>3. members[t] = <<>> /\ total_size[t] = 0 /\ max_alignment[t] = 1 /\ Len(members[t]) = 0
  BY <1>1 DEF LayoutInv, Unused
<1>4. \A k : k \notin 1 .. 0
  OBVIOUS
<1>5. Placed'
  <2> SUFFICES ASSUME NEW u \in Tag, sym_type'[u] = "STRUCT", NEW k \in 1 .. Len(members[u])
               PROVE  InPlace(u, k)'
    BY <1>1 DEF Placed
  <2>1. u # t
    BY <1>3, <1>4
  <2>2. InPlace(u, k)
    BY <2>1, <1>1, <1>2 DEF LayoutInv, Placed, IsFresh, Looping
  <2> QED
    BY <2>2, <1>1, Frame
<1>6. Computed'
  <2> SUFFICES ASSUME NEW u \in Tag, sym_type'[u] = "STRUCT" PROVE Finished(u)
    BY <1>1, Frame DEF Computed
  <2>1. CASE u # t
    BY <2>1, <1>1, <1>2 DEF LayoutInv, Computed
  <2>2. CASE u = t
    <3>1. LeastAligned(0, 0, 1)
      BY DEF LeastAligned
    <3>2. EndOf(t, 0) = 0 /\ IsLargest(1, t, 0)
      BY <1>4 DEF EndOf, IsLargest
    <3> QED
      BY <3>1, <3>2, <2>2, <1>3 DEF Finished
  <2> QED
    BY <2>1, <2>2
<1>7. Summed' /\ Unused'
  BY <1>1, <1>2 DEF LayoutInv, Summed, Unused
<1>8. Overlaid'
  <2> SUFFICES ASSUME NEW u \in Tag, sym_type'[u] = "UNION", NEW k \in 1 .. Len(members[u])
               PROVE  offset[u][k] = 0
    BY <1>1 DEF Overlaid
  <2>1. u # t
    BY <1>3, <1>4
  <2> QED
    BY <2>1, <1>2 DEF LayoutInv, Overlaid
<1> QED
  BY <1>5, <1>6, <1>7, <1>8 DEF LayoutInv

LEMMA LayoutStep == LayoutInv /\ [Next]_vars => LayoutInv'
<1> SUFFICES ASSUME LayoutInv, [Next]_vars PROVE LayoutInv'
  OBVIOUS
<1>t. TypeInv /\ TypeInv'
  BY TypeStep DEF LayoutInv
<1>1. ASSUME NEW ty \in MemberType, AddSimpleMember(ty) PROVE LayoutInv'
  <2>1. calculate_type_size(ty) \in Nat /\ calculate_type_alignment(ty) \in Alignment
    BY <1>t, SizeType, AlignmentType DEF TypeInv, TypeOK
  <2>2. /\ pc = "members"
        /\ AddMember(ty, calculate_type_size(ty), calculate_type_alignment(ty))
    BY <1>1 DEF AddSimpleMember
  <2> QED
    BY <2>1, <2>2, <1>t, AddMemberLays
<1>2. CASE AddSizedMember
  <2>1. pending \in MemberType /\ pending.base \in Tag
    BY <1>t, <1>2 DEF TypeInv, Control, AddSizedMember
  <2>2. total_size[pending.base] \in Nat /\ calculate_type_alignment(pending) \in Alignment
    BY <1>t, <2>1, AlignmentType DEF TypeInv, TypeOK
  <2>3. /\ pc = "sized"
        /\ AddMember(pending, total_size[pending.base], calculate_type_alignment(pending))
    BY <1>2 DEF AddSizedMember
  <2> QED
    BY <2>1, <2>2, <2>3, <1>t, AddMemberLays
<1>3. ASSUME NEW ty \in MemberType, AskMemberSize(ty) PROVE LayoutInv'
  <2>1. /\ ty.base \in Tag /\ ~Looping /\ Begin(ty.base, "layout for size")
        /\ UNCHANGED <<sym_type, members, layout>>
    BY <1>3 DEF AskMemberSize, IsKnown, Looping
  <2> QED
    BY <2>1, <1>t, BeginLays
<1>4. CASE EndOfMembers
  <2>1. /\ ~Looping /\ Begin(cur, "layout for end")
        /\ UNCHANGED <<sym_type, members, layout>>
    BY <1>4 DEF EndOfMembers, Looping
  <2>2. cur \in Tag
    BY <1>t, <1>4 DEF EndOfMembers, TypeInv, Control, Busy
  <2> QED
    BY <2>1, <2>2, <1>t, BeginLays
<1>5. ASSUME NEW t \in Tag, UseTag(t) PROVE LayoutInv'
  <2>1. /\ ~Looping /\ Begin(t, "layout for size")
        /\ UNCHANGED <<sym_type, members, layout>>
    BY <1>5 DEF UseTag, Looping
  <2> QED
    BY <2>1, <1>t, BeginLays
<1>6. CASE UNCHANGED vars
  <2>1. /\ UNCHANGED <<sym_type, members, offset, total_size, max_alignment>>
        /\ UNCHANGED <<on, i, size, align, pc>>
    BY <1>6 DEF vars, layout, loop
  <2>2. Placed'
    BY <2>1 DEF LayoutInv, Placed, InPlace, EndOf, IsFresh
  <2>3. Summed'
    BY <2>1 DEF LayoutInv, Summed, EndOf, IsLargest, Looping
  <2>4. Computed'
    BY <2>1, Frame DEF LayoutInv, Computed, Looping
  <2>5. Unused' /\ Overlaid'
    BY <2>1 DEF LayoutInv, Unused, Overlaid
  <2> QED
    BY <2>2, <2>3, <2>4, <2>5, <1>t DEF LayoutInv
<1> QED
  BY <1>1, <1>2, <1>3, <1>4, <1>5, <1>6, <1>t, DefineTagLays, StructStepLays,
     UnionStepLays, LayoutEndLays DEF Next

\* Whenever no loop is at work on a struct its members, its alignment and its size
\* are those of the C ABI, however often add_struct_member, sizeof or a declaration
\* has had calculate_struct_size run on it.
THEOREM StructsAreLaidOutCorrect == Spec => []StructsAreLaidOut
<1>1. LayoutInv => StructsAreLaidOut
  <2> SUFFICES ASSUME LayoutInv, NEW t \in Tag, sym_type[t] = "STRUCT", ~(Looping /\ on = t)
               PROVE  /\ MembersInPlace(t, Len(members[t]))
                      /\ IsLargest(max_alignment[t], t, Len(members[t]))
                      /\ LeastAligned(total_size[t], EndOf(t, Len(members[t])),
                                      max_alignment[t])
    BY DEF StructsAreLaidOut
  <2>1. Finished(t)
    BY DEF LayoutInv, Computed
  <2>2. \A k \in 1 .. Len(members[t]) : ~IsFresh(t, k)
    BY DEF IsFresh, Looping
  <2>3. \A k \in 1 .. Len(members[t]) : InPlace(t, k)
    BY <2>2 DEF LayoutInv, Placed
  <2> QED
    BY <2>1, <2>3 DEF Finished, MembersInPlace, InPlace
<1> QED
  BY <1>1, LayoutInit, LayoutStep, PTL DEF Spec

\* Every later layout of a struct, and every layout of a union, writes the offsets
\* that are there already: no member with a place is ever moved.
THEOREM NoMemberMovesCorrect == Spec => NoMemberMoves
<1> DEFINE Stays == \A t \in Tag : \A k \in DOMAIN members[t] :
                        ~IsFresh(t, k) => offset'[t][k] = offset[t][k]
<1>1. LayoutInv /\ [Next]_vars => [Stays]_vars
  <2> SUFFICES ASSUME LayoutInv, Next, NEW t \in Tag, NEW k \in DOMAIN members[t],
                      ~IsFresh(t, k)
               PROVE  offset'[t][k] = offset[t][k]
    OBVIOUS
  <2>0. k \in 1 .. Len(members[t]) /\ TypeInv
    <3>1. members[t] \in Seq(MemberSymbol)
      BY DEF LayoutInv, TypeInv, TypeOK
    <3> QED
      BY <3>1 DEF LayoutInv
  <2>1. CASE StructStep
    BY <2>0, <2>1, StructStepPlaces
  <2>2. CASE UnionStep
    BY <2>0, <2>2, UnionStepPlaces
  <2>3. ASSUME NEW ty, NEW sz, NEW al, pc \in {"members", "sized"}, AddMember(ty, sz, al)
        PROVE  offset'[t][k] = offset[t][k]
    <3>1. /\ offset[t] \in Seq(Nat) /\ Len(offset[t]) = Len(members[t])
          /\ offset \in [Tag -> Seq(Nat)] /\ cur \in Tag
      BY <2>0, <2>3 DEF TypeInv, TypeOK, Control, Busy
    <3>2. offset' = [offset EXCEPT ![cur] = Append(offset[cur], 0)]
      BY <2>3 DEF AddMember
    <3>3. t # cur => offset'[t] = offset[t]
      BY <3>1, <3>2
    <3>4. t = cur => offset'[t] = Append(offset[t], 0)
      BY <3>1, <3>2
    <3>5. Append(offset[t], 0)[k] = offset[t][k]
      BY <3>1, <2>0
    <3> QED
      BY <3>3, <3>4, <3>5
  <2>4. CASE offset' = offset
    BY <2>4
  <2>5. ASSUME NEW ty \in MemberType, AddSimpleMember(ty) PROVE offset'[t][k] = offset[t][k]
    BY <2>3, <2>5 DEF AddSimpleMember
  <2>6. CASE AddSizedMember
    BY <2>3, <2>6 DEF AddSizedMember
  <2> QED
    BY <2>1, <2>2, <2>4, <2>5, <2>6
    DEF Next, DefineTag, AskMemberSize, EndOfMembers, UseTag, LayoutEnd, layout
<1>2. Spec => [][Stays]_vars
  BY <1>1, LayoutInit, LayoutStep, PTL DEF Spec
<1> QED
  BY <1>2 DEF NoMemberMoves
-------------------------------------------------------------------------------
\* The layout of a union: what has been seen of it, instead of a sum, is its
\* largest member.

Widest(s, t, n) ==
    /\ \A k \in 1 .. n : members[t][k].size <= s
    /\ s = 0 \/ \E k \in 1 .. n : members[t][k].size = s

Compared == Looping /\ sym_type[on] = "UNION" =>
    Widest(size, on, i - 1) /\ IsLargest(align, on, i - 1)

Fitted(t) ==
    /\ IsLargest(max_alignment[t], t, Len(members[t]))
    /\ \E s \in Nat : /\ Widest(s, t, Len(members[t]))
                      /\ LeastAligned(total_size[t], s, max_alignment[t])

AllFitted ==
    \A t \in Tag : sym_type[t] = "UNION" /\ ~(Looping /\ on = t) => Fitted(t)

UnionInv ==
    /\ LayoutInv
    /\ Compared
    /\ AllFitted

\* No union is defined at the start.
LEMMA UnionInit == Init => UnionInv
  BY LayoutInit DEF UnionInv, AllFitted, Init, Compared, Looping

\* What holds of a union holds on while its members and its sums are left alone.
LEMMA UnionFrame ==
    ASSUME NEW t \in Tag, members'[t] = members[t]
    PROVE  /\ \A s, n : Widest(s, t, n)' <=> Widest(s, t, n)
           /\ \A a, n : IsLargest(a, t, n)' <=> IsLargest(a, t, n)
           /\ total_size'[t] = total_size[t] /\ max_alignment'[t] = max_alignment[t]
                 => (Fitted(t)' <=> Fitted(t))
  BY DEF Widest, IsLargest, Fitted, LeastAligned

\* At the head of the loop nothing has been seen.
LEMMA NothingSeen ==
    ASSUME i' = 1, size' = 0, align' = 1
    PROVE  Compared'
<1>1. i' - 1 = 0
  BY 1 - 1 = 0
<1>2. \A k : k \notin 1 .. 0
  OBVIOUS
<1>3. Widest(size, on, 0)' /\ IsLargest(align, on, 0)'
  BY <1>2 DEF Widest, IsLargest
<1> QED
  BY <1>1, <1>3 DEF Compared

\* Members have a size and an alignment.
LEMMA MembersType ==
    ASSUME NEW q \in Seq(MemberSymbol), NEW k \in 1 .. Len(q)
    PROVE  q[k].size \in Nat /\ q[k].alignment \in Alignment
<1>1. q[k] \in MemberSymbol
  OBVIOUS
<1> QED
  BY <1>1 DEF MemberSymbol

\* One more member: the larger of it and the widest before it is the widest.
LEMMA WidestGrows ==
    ASSUME NEW t, NEW n \in Nat, NEW s \in Nat, Widest(s, t, n),
           \A k \in 1 .. n + 1 : members[t][k].size \in Nat
    PROVE  Widest(Larger(s, members[t][n + 1].size), t, n + 1)
<1> DEFINE sz(k) == members[t][k].size
           b == sz(n + 1)
<1>1. /\ \A k \in 1 .. n + 1 : k = n + 1 \/ k \in 1 .. n
      /\ \A k \in 1 .. n : k \in 1 .. n + 1
      /\ n + 1 \in 1 .. n + 1
  OBVIOUS
<1>2. \A k \in 1 .. n + 1 : sz(k) \in Nat
  OBVIOUS
<1>3. b \in Nat
  BY <1>1, <1>2
<1>4. /\ \A k \in 1 .. n : sz(k) <= s
      /\ s = 0 \/ \E k \in 1 .. n : sz(k) = s
  BY DEF Widest
<1>5. SUFFICES /\ \A k \in 1 .. n + 1 : sz(k) <= Larger(s, b)
               /\ Larger(s, b) = 0 \/ \E k \in 1 .. n + 1 : sz(k) = Larger(s, b)
  BY DEF Widest
<1>6. b = sz(n + 1)
  OBVIOUS
<1> HIDE DEF b, sz
<1>7. CASE s > b
  <2>1. Larger(s, b) = s /\ b <= s
    BY <1>3, <1>7 DEF Larger
  <2> QED
    BY <1>1, <1>4, <1>6, <2>1
<1>8. CASE ~(s > b)
  <2>1. Larger(s, b) = b /\ s <= b /\ b <= b
    BY <1>3, <1>8 DEF Larger
  <2>2. \A k \in 1 .. n : sz(k) <= b
    BY <1>1, <1>2, <1>3, <1>4, <2>1
  <2> QED
    BY <1>1, <1>6, <2>1, <2>2
<1> QED
  BY <1>7, <1>8

\* An iteration takes one member into account and touches no other union.
LEMMA UnionStepFits == UnionInv /\ UnionStep /\ LayoutInv' => UnionInv'
<1> SUFFICES ASSUME UnionInv, UnionStep, LayoutInv' PROVE UnionInv'
  OBVIOUS
<1>1. /\ Looping /\ sym_type[on] = "UNION" /\ i <= Len(members[on]) /\ i' = i + 1
      /\ size' = Larger(size, Member.size) /\ align' = Larger(align, Member.alignment)
      /\ UNCHANGED <<sym_type, members, total_size, max_alignment, on, pc>>
  BY DEF UnionStep
<1>2. /\ on \in Tag /\ i \in 1 .. Len(members[on]) /\ size \in Nat /\ align \in Alignment
      /\ members[on] \in Seq(MemberSymbol)
  BY <1>1, MemberType_ DEF UnionInv, LayoutInv, TypeInv, TypeOK
<1>3. /\ i - 1 \in Nat /\ (i - 1) + 1 = i /\ i' - 1 = i
      /\ \A k \in 1 .. i : k \in 1 .. Len(members[on])
  <2>1. Len(members[on]) \in Nat
    BY <1>2, LengthType
  <2> QED
    BY <2>1, <1>1, <1>2
<1>4. \A k \in 1 .. i : /\ members[on][k].size \in Nat
                        /\ members[on][k].alignment \in Alignment
  <2> DEFINE q == members[on]
  <2>1. q \in Seq(MemberSymbol) /\ \A k \in 1 .. i : k \in 1 .. Len(q)
    BY <1>2, <1>3
  <2>2. \A k \in 1 .. i : q[k].size \in Nat /\ q[k].alignment \in Alignment
    <3> HIDE DEF q
    <3> QED
      BY <2>1, MembersType
  <2> QED
    BY <2>2
<1>5. Widest(size, on, i - 1) /\ IsLargest(align, on, i - 1)
  BY <1>1 DEF UnionInv, Compared
<1>6. Widest(size', on, i) /\ IsLargest(align', on, i)
  BY <1>1, <1>2, <1>3, <1>4, <1>5, WidestGrows, LargestGrows DEF Member
<1>7. Widest(size, on, i - 1)' /\ IsLargest(align, on, i - 1)'
  BY <1>1, <1>3, <1>6 DEF Widest, IsLargest
<1>8. Compared'
  BY <1>7 DEF Compared
<1>9. ASSUME NEW t \in Tag, sym_type[t] = "UNION", ~(Looping /\ on = t) PROVE Fitted(t)'
  <2>1. Fitted(t)
    BY <1>9 DEF UnionInv, AllFitted
  <2> QED
    BY <2>1, <1>1, UnionFrame
<1>10. AllFitted'
  BY <1>1, <1>9 DEF AllFitted, Looping
<1> QED
  BY <1>8, <1>10 DEF UnionInv

\* After the last member the size of the union is the widest one, rounded up.
LEMMA UnionEndFits == UnionInv /\ LayoutEnd /\ LayoutInv' => UnionInv'
<1> SUFFICES ASSUME UnionInv, LayoutEnd, LayoutInv' PROVE UnionInv'
  OBVIOUS
<1>1. /\ Looping /\ i > Len(members[on])
      /\ total_size' = [total_size EXCEPT ![on] = align_to(size, align)]
      /\ max_alignment' = [max_alignment EXCEPT ![on] = align]
      /\ UNCHANGED <<sym_type, members>>
  BY DEF LayoutEnd
<1>2. ~Looping'
  BY DEF LayoutEnd, AfterLoop, Looping
<1>3. /\ on \in Tag /\ size \in Nat /\ align \in Alignment
      /\ total_size \in [Tag -> Nat] /\ max_alignment \in [Tag -> Alignment]
      /\ i - 1 = Len(members[on])
  <2>1. on \in Tag /\ i \in 1 .. Len(members[on]) + 1 /\ i \in Nat
    BY <1>1 DEF UnionInv, LayoutInv, TypeInv, TypeOK, Control
  <2>2. Len(members[on]) \in Nat
    BY <2>1, LengthType DEF UnionInv, LayoutInv, TypeInv, TypeOK
  <2>3. i - 1 = Len(members[on])
    BY <2>1, <2>2, <1>1
  <2> QED
    BY <2>1, <2>3 DEF UnionInv, LayoutInv, TypeInv, TypeOK
<1>4. /\ total_size'[on] = align_to(size, align) /\ max_alignment'[on] = align
      /\ \A t \in Tag : t # on =>
            total_size'[t] = total_size[t] /\ max_alignment'[t] = max_alignment[t]
  BY <1>1, <1>3
<1>5. ASSUME NEW t \in Tag, sym_type[t] = "UNION" PROVE Fitted(t)'
  <2>1. CASE t = on
    <3>1. Widest(size, t, Len(members[t])) /\ IsLargest(align, t, Len(members[t]))
      BY <2>1, <1>1, <1>3, <1>5 DEF UnionInv, Compared
    <3>2. LeastAligned(align_to(size, align), size, align)
      BY <1>3, AlignToIsLeast
    <3>3. /\ IsLargest(max_alignment'[t], t, Len(members[t]))
          /\ \E s \in Nat : /\ Widest(s, t, Len(members[t]))
                            /\ LeastAligned(total_size'[t], s, max_alignment'[t])
      BY <2>1, <3>1, <3>2, <1>3, <1>4
    <3> QED
      BY <3>3, <1>1 DEF Fitted, IsLargest, Widest, LeastAligned
  <2>2. CASE t # on
    <3>1. Fitted(t)
      BY <2>2, <1>5 DEF UnionInv, AllFitted
    <3> QED
      BY <3>1, <2>2, <1>1, <1>4, UnionFrame
  <2> QED
    BY <2>1, <2>2
<1>6. Compared'
  BY <1>2 DEF Compared
<1>7. AllFitted'
  BY <1>1, <1>5 DEF AllFitted
<1> QED
  BY <1>6, <1>7 DEF UnionInv

\* A new member of a union sends the loop over it; no other union is touched.
LEMMA AddMemberFits ==
    ASSUME UnionInv, LayoutInv', pc \in {"members", "sized"},
           NEW ty, NEW sz, NEW al, AddMember(ty, sz, al)
    PROVE  UnionInv'
<1>1. cur \in Tag /\ ~Looping
  BY DEF UnionInv, LayoutInv, TypeInv, Control, Busy, Looping
<1>2. /\ on' = cur /\ i' = 1 /\ size' = 0 /\ align' = 1 /\ Looping'
      /\ UNCHANGED <<sym_type, total_size, max_alignment>>
  BY DEF AddMember, Begin, Looping
<1>3. \A t \in Tag : t # cur => members'[t] = members[t]
  BY <1>1 DEF AddMember, UnionInv, LayoutInv, TypeInv, TypeOK
<1>4. ASSUME NEW t \in Tag, sym_type[t] = "UNION", t # cur PROVE Fitted(t)'
  <2>1. Fitted(t)
    BY <1>1, <1>4 DEF UnionInv, AllFitted
  <2> QED
    BY <2>1, <1>2, <1>3, <1>4, UnionFrame
<1>5. AllFitted'
  BY <1>2, <1>4 DEF AllFitted
<1>6. Compared'
  BY <1>2, NothingSeen
<1> QED
  BY <1>5, <1>6 DEF UnionInv

\* A new union is empty, and a union of no members fits.
LEMMA DefineTagFits ==
    ASSUME UnionInv, LayoutInv', NEW t \in Tag, NEW kind \in {"STRUCT", "UNION"},
           DefineTag(t, kind)
    PROVE  UnionInv'
<1>1. /\ sym_type[t] = "none" /\ sym_type' = [sym_type EXCEPT ![t] = kind]
      /\ UNCHANGED <<members, offset, total_size, max_alignment>>
      /\ ~Looping /\ ~Looping'
  BY DEF DefineTag, layout, Looping
<1>2. \A u \in Tag : u # t => sym_type'[u] = sym_type[u]
  BY <1>1 DEF UnionInv, LayoutInv, TypeInv, TypeOK
<1>3. members[t] = <<>> /\ total_size[t] = 0 /\ max_alignment[t] = 1 /\ Len(members[t]) = 0
  BY <1>1 DEF UnionInv, LayoutInv, Unused
<1>4. Fitted(t)
  <2>1. \A k : k \notin 1 .. 0
    OBVIOUS
  <2>2. Widest(0, t, 0) /\ IsLargest(1, t, 0) /\ LeastAligned(0, 0, 1) /\ 0 \in Nat
    BY <2>1 DEF Widest, IsLargest, LeastAligned
  <2> QED
    BY <2>2, <1>3 DEF Fitted
<1>5. ASSUME NEW u \in Tag, sym_type'[u] = "UNION" PROVE Fitted(u)'
  <2>1. Fitted(u)
    BY <1>1, <1>2, <1>4, <1>5 DEF UnionInv, AllFitted
  <2> QED
    BY <2>1, <1>1, UnionFrame
<1>6. AllFitted'
  BY <1>5 DEF AllFitted
<1>7. Compared'
  BY <1>1 DEF Compared
<1> QED
  BY <1>6, <1>7 DEF UnionInv

\* Every step keeps the layouts of unions.
LEMMA UnionInvStep == UnionInv /\ [Next]_vars => UnionInv'
<1> SUFFICES ASSUME UnionInv, [Next]_vars PROVE UnionInv'
  OBVIOUS
<1>l. LayoutInv /\ LayoutInv'
  BY LayoutStep DEF UnionInv
<1>1. ASSUME NEW t, NEW next, ~Looping, Begin(t, next), UNCHANGED <<sym_type, members, layout>>
      PROVE  UnionInv'
  <2>1. /\ i' = 1 /\ size' = 0 /\ align' = 1
        /\ UNCHANGED <<sym_type, members, total_size, max_alignment>>
    BY <1>1 DEF Begin, layout
  <2>2. ASSUME NEW u \in Tag, sym_type[u] = "UNION" PROVE Fitted(u)'
    <3>1. Fitted(u)
      BY <1>1, <2>2 DEF UnionInv, AllFitted
    <3> QED
      BY <3>1, <2>1, UnionFrame
  <2>3. AllFitted'
    BY <2>1, <2>2 DEF AllFitted
  <2>4. Compared'
    BY <2>1, NothingSeen
  <2> QED
    BY <2>3, <2>4, <1>l DEF UnionInv
<1>2. ASSUME NEW ty \in MemberType, AskMemberSize(ty) PROVE UnionInv'
  BY <1>1, <1>2 DEF AskMemberSize, Looping
<1>3. CASE EndOfMembers
  BY <1>1, <1>3 DEF EndOfMembers, Looping
<1>4. ASSUME NEW t \in Tag, UseTag(t) PROVE UnionInv'
  BY <1>1, <1>4 DEF UseTag, Looping
<1>5. ASSUME NEW ty \in MemberType, AddSimpleMember(ty) PROVE UnionInv'
  BY <1>5, <1>l, AddMemberFits DEF AddSimpleMember
<1>6. CASE AddSizedMember
  BY <1>6, <1>l, AddMemberFits DEF AddSizedMember
<1>7. CASE StructStep
  <2>1. /\ Looping /\ sym_type[on] = "STRUCT"
        /\ UNCHANGED <<sym_type, members, total_size, max_alignment, on, pc>>
    BY <1>7 DEF StructStep
  <2>2. ASSUME NEW u \in Tag, sym_type[u] = "UNION" PROVE Fitted(u)'
    <3>1. u # on
      BY <2>1, <2>2
    <3>2. Fitted(u)
      BY <2>2, <3>1 DEF UnionInv, AllFitted
    <3> QED
      BY <3>2, <2>1, UnionFrame
  <2>3. AllFitted'
    BY <2>1, <2>2 DEF AllFitted
  <2>4. Compared'
    BY <2>1 DEF Compared
  <2> QED
    BY <2>3, <2>4, <1>l DEF UnionInv
<1>8. CASE UNCHANGED vars
  <2>1. UNCHANGED <<sym_type, members, total_size, max_alignment, on, i, size, align, pc>>
    BY <1>8 DEF vars, layout, loop
  <2>2. Compared'
    BY <2>1 DEF UnionInv, Compared, Widest, IsLargest, Looping
  <2>3. ASSUME NEW u \in Tag, sym_type[u] = "UNION", ~(Looping /\ on = u) PROVE Fitted(u)'
    <3>1. Fitted(u)
      BY <2>3 DEF UnionInv, AllFitted
    <3> QED
      BY <3>1, <2>1, UnionFrame
  <2>4. AllFitted'
    BY <2>1, <2>3 DEF AllFitted, Looping
  <2> QED
    BY <2>2, <2>4, <1>l DEF UnionInv
<1> QED
  BY <1>2, <1>3, <1>4, <1>5, <1>6, <1>7, <1>8, <1>l, DefineTagFits, UnionStepFits,
     UnionEndFits DEF Next

\* A size below the last multiple of the alignment holds no widest member.
LEMMA TightIsLeast ==
    ASSUME NEW a \in Alignment, NEW s \in Nat, NEW total \in Nat,
           LeastAligned(total, s, a), NEW x \in 0 .. total - a
    PROVE  x < s
<1>1. /\ x \in Int /\ 0 <= x /\ x <= total - a
      /\ total < s + a
      /\ a \in Nat
  BY DEF LeastAligned, Alignment
<1> QED
  BY <1>1

\* Whenever no loop is at work on a union, its members begin at 0 and its size is the
\* least that holds the largest of them, however often calculate_union_size was run.
THEOREM UnionsAreLaidOutCorrect == Spec => []UnionsAreLaidOut
<1>1. UnionInv => UnionsAreLaidOut
  <2> SUFFICES ASSUME UnionInv, NEW t \in Tag, sym_type[t] = "UNION", ~(Looping /\ on = t)
               PROVE  LET n == Len(members[t])
                          fits(s) == \A k \in 1 .. n : members[t][k].size <= s
                      IN  /\ \A k \in 1 .. n : offset[t][k] = 0
                          /\ IsLargest(max_alignment[t], t, n)
                          /\ fits(total_size[t])
                          /\ total_size[t] % max_alignment[t] = 0
                          /\ \A s \in 0 .. total_size[t] - max_alignment[t] :
                                ~fits(s) \/ n = 0
    BY DEF UnionsAreLaidOut
  <2> DEFINE n == Len(members[t])
             total == total_size[t]
             a == max_alignment[t]
             sz(k) == members[t][k].size
  <2>1. Fitted(t)
    BY DEF UnionInv, AllFitted
  <2>2. PICK s \in Nat : Widest(s, t, n) /\ LeastAligned(total, s, a)
    BY <2>1 DEF Fitted
  <2>3. total \in Nat /\ a \in Alignment /\ members[t] \in Seq(MemberSymbol)
    BY DEF UnionInv, LayoutInv, TypeInv, TypeOK
  <2>4. \A k \in 1 .. n : sz(k) \in Nat
    <3> DEFINE q == members[t]
    <3>1. \A k \in 1 .. Len(q) : q[k].size \in Nat
      <4>1. q \in Seq(MemberSymbol)
        BY <2>3
      <4> HIDE DEF q
      <4> QED
        BY <4>1, MembersType
    <3> QED
      BY <3>1
  <2>5. /\ \A k \in 1 .. n : sz(k) <= s
        /\ s = 0 \/ \E k \in 1 .. n : sz(k) = s
    BY <2>2 DEF Widest
  <2>6. s <= total /\ total % a = 0
    BY <2>2, <2>3 DEF LeastAligned
  <2>7. \A k \in 1 .. n : offset[t][k] = 0
    BY DEF UnionInv, LayoutInv, Overlaid
  <2>8. IsLargest(a, t, n)
    BY <2>1 DEF Fitted
  <2>9. \A k \in 1 .. n : sz(k) <= total
    <3> HIDE DEF n, total, sz
    <3> QED
      BY <2>3, <2>4, <2>5, <2>6
  <2>10. ASSUME NEW x \in 0 .. total - a, \A k \in 1 .. n : sz(k) <= x PROVE FALSE
    <3>1. x < s
      BY <2>2, <2>3, TightIsLeast
    <3>2. x \in Nat
      BY <2>3 DEF Alignment
    <3> HIDE DEF n, total, sz
    <3>3. PICK k \in 1 .. n : sz(k) = s
      BY <2>5, <3>1, <3>2
    <3> QED
      BY <2>10, <3>1, <3>2, <3>3
  <2> QED
    BY <2>6, <2>7, <2>8, <2>9, <2>10
<1> QED
  BY <1>1, UnionInit, UnionInvStep, PTL DEF Spec

-------------------------------------------------------------------------------
\* Structs within structs.  A loop that is run because a size is asked for finds what
\* is already there, and a struct that another one contains is never the one being
\* defined: whatever layout is computed again, the sizes that were copied stay right.

Settled(t) ==
    /\ sym_type[t] = "STRUCT" => Finished(t)
    /\ sym_type[t] = "UNION" => Fitted(t)

AskedOfSettled == pc = "layout for size" => Settled(on)

PendingIsKnown ==
    pc = "sized" \/ (pc = "layout for size" /\ pending # NoType) =>
        ByValue(pending) /\ IsKnown(pending)

\* A member of t that is another struct or union and got its size.
Contained(m, t) == ByValue(m.type) /\ m.type.base # t /\ m.size # 0

Agrees(m) ==
    /\ m.type.base \in Tag \ {cur}
    /\ sym_type[m.type.base] # "none"
    /\ m.size = total_size[m.type.base]
    /\ m.alignment = max_alignment[m.type.base]

ContainedAgree ==
    \A t \in Tag : \A k \in 1 .. Len(members[t]) :
        Contained(members[t][k], t) => Agrees(members[t][k])

NestInv == UnionInv /\ AskedOfSettled /\ PendingIsKnown /\ ContainedAgree

\* There is one largest alignment, and one largest size.
LEMMA LargestIsUnique ==
    ASSUME NEW t, NEW n, NEW a \in Alignment, NEW b \in Alignment,
           \A k \in 1 .. n : members[t][k].alignment \in Alignment,
           IsLargest(a, t, n), IsLargest(b, t, n)
    PROVE  a = b
<1> DEFINE al(k) == members[t][k].alignment
<1>1. \A x \in Alignment : x \in Nat /\ x >= 1
  BY DEF Alignment
<1>2. /\ \A k \in 1 .. n : al(k) \in Nat /\ al(k) >= 1 /\ al(k) <= a /\ al(k) <= b
      /\ a = 1 \/ \E k \in 1 .. n : al(k) = a
      /\ b = 1 \/ \E k \in 1 .. n : al(k) = b
      /\ a \in Nat /\ b \in Nat /\ a >= 1 /\ b >= 1
  BY <1>1 DEF IsLargest
<1> HIDE DEF al
<1>3. a <= b /\ b <= a
  BY <1>2
<1> QED
  BY <1>2, <1>3

LEMMA WidestIsUnique ==
    ASSUME NEW t, NEW n, NEW r \in Nat, NEW s \in Nat,
           \A k \in 1 .. n : members[t][k].size \in Nat,
           Widest(r, t, n), Widest(s, t, n)
    PROVE  r = s
<1> DEFINE sz(k) == members[t][k].size
<1>1. /\ \A k \in 1 .. n : sz(k) \in Nat /\ sz(k) >= 0 /\ sz(k) <= r /\ sz(k) <= s
      /\ r = 0 \/ \E k \in 1 .. n : sz(k) = r
      /\ s = 0 \/ \E k \in 1 .. n : sz(k) = s
  BY DEF Widest
<1> HIDE DEF sz
<1>2. r <= s /\ s <= r
  BY <1>1
<1> QED
  BY <1>2

\* All the members of a symbol have a size and an alignment.
LEMMA MembersOf ==
    ASSUME TypeInv, NEW t \in Tag
    PROVE  /\ members[t] \in Seq(MemberSymbol) /\ Len(members[t]) \in Nat
           /\ Len(offset[t]) = Len(members[t])
           /\ \A k \in 1 .. Len(members[t]) :
                 /\ members[t][k].size \in Nat
                 /\ members[t][k].alignment \in Alignment
<1>1. members[t] \in Seq(MemberSymbol) /\ Len(offset[t]) = Len(members[t])
  BY DEF TypeInv, TypeOK
<1>2. Len(members[t]) \in Nat
  BY <1>1, LengthType
<1> DEFINE q == members[t]
<1>3. \A k \in 1 .. Len(q) : q[k].size \in Nat /\ q[k].alignment \in Alignment
  <2>1. q \in Seq(MemberSymbol)
    BY <1>1
  <2> HIDE DEF q
  <2> QED
    BY <2>1, MembersType
<1> QED
  BY <1>1, <1>2, <1>3

\* Wherever no loop is at work, every symbol is settled.
LEMMA IdleSymbols ==
    ASSUME UnionInv, ~Looping, NEW t \in Tag
    PROVE  Settled(t)
  BY DEF UnionInv, AllFitted, LayoutInv, Computed, Settled

\* A symbol stays settled while its members keep their places and its sums stay.
LEMMA SettledFrame ==
    ASSUME TypeInv, NEW t \in Tag, Settled(t),
           sym_type'[t] = sym_type[t], members'[t] = members[t],
           total_size'[t] = total_size[t], max_alignment'[t] = max_alignment[t],
           \A k \in 1 .. Len(members[t]) : offset'[t][k] = offset[t][k]
    PROVE  Settled(t)'
<1>1. Len(members[t]) \in Nat
  BY MembersOf
<1>2. EndOf(t, Len(members[t]))' = EndOf(t, Len(members[t]))
  <2>1. Len(members[t]) = 0 \/ Len(members[t]) \in 1 .. Len(members[t])
    BY <1>1
  <2> QED
    BY <2>1 DEF EndOf
<1>3. Finished(t) => Finished(t)'
  BY <1>2 DEF Finished, IsLargest, LeastAligned
<1>4. Fitted(t) => Fitted(t)'
  BY UnionFrame
<1> QED
  BY <1>3, <1>4 DEF Settled

LEMMA PastTheLast ==
    ASSUME NEW n \in Nat, NEW j \in 1 .. n + 1, j > n
    PROVE  j - 1 = n
  OBVIOUS

\* A loop run for a size writes back the size and the alignment it finds.
LEMMA AskingChangesNothing ==
    ASSUME NestInv, LayoutEnd, pc = "layout for size"
    PROVE  total_size' = total_size /\ max_alignment' = max_alignment
<1>1. /\ Looping /\ i > Len(members[on])
      /\ total_size' = [total_size EXCEPT ![on] = align_to(size, align)]
      /\ max_alignment' = [max_alignment EXCEPT ![on] = align]
  BY DEF LayoutEnd
<1>t. TypeInv
  BY DEF NestInv, UnionInv, LayoutInv
<1>2. /\ on \in Tag /\ size \in Nat /\ align \in Alignment /\ i \in Nat
      /\ sym_type[on] \in {"STRUCT", "UNION"}
      /\ total_size \in [Tag -> Nat] /\ max_alignment \in [Tag -> Alignment]
      /\ i \in 1 .. Len(members[on]) + 1
  BY <1>1, <1>t DEF TypeInv, TypeOK, Control
<1> DEFINE n == Len(members[on])
<1>3. /\ n \in Nat
      /\ \A k \in 1 .. n : /\ members[on][k].size \in Nat
                           /\ members[on][k].alignment \in Alignment
  BY <1>2, <1>t, MembersOf
<1>4. i - 1 = n
  BY <1>1, <1>2, <1>3, PastTheLast
<1>5. LeastAligned(align_to(size, align), size, align) /\ align_to(size, align) \in Nat
  BY <1>2, AlignToIsLeast, AlignToType
<1>6. total_size[on] \in Nat /\ max_alignment[on] \in Alignment
  BY <1>2
<1>7. Settled(on)
  BY DEF NestInv, AskedOfSettled
<1>8. max_alignment[on] = align /\ total_size[on] = align_to(size, align)
  <2>1. CASE sym_type[on] = "STRUCT"
    <3>1. size = EndOf(on, n) /\ IsLargest(align, on, n)
      BY <2>1, <1>1, <1>4 DEF NestInv, UnionInv, LayoutInv, Summed
    <3>2. /\ IsLargest(max_alignment[on], on, n)
          /\ LeastAligned(total_size[on], EndOf(on, n), max_alignment[on])
      BY <2>1, <1>7 DEF Settled, Finished
    <3>3. max_alignment[on] = align
      <4> HIDE DEF n
      <4> QED
        BY <3>1, <3>2, <1>2, <1>3, <1>6, LargestIsUnique
    <3>4. LeastAligned(total_size[on], size, align)
      BY <3>1, <3>2, <3>3
    <3> QED
      BY <3>3, <3>4, <1>2, <1>5, <1>6, LeastIsUnique
  <2>2. CASE sym_type[on] = "UNION"
    <3>1. Widest(size, on, n) /\ IsLargest(align, on, n)
      BY <2>2, <1>1, <1>4 DEF NestInv, UnionInv, Compared
    <3>2. PICK s \in Nat : /\ IsLargest(max_alignment[on], on, n)
                           /\ Widest(s, on, n)
                           /\ LeastAligned(total_size[on], s, max_alignment[on])
      BY <2>2, <1>7 DEF Settled, Fitted
    <3>3. max_alignment[on] = align /\ s = size
      <4> HIDE DEF n
      <4>1. max_alignment[on] = align
        BY <3>1, <3>2, <1>2, <1>3, <1>6, LargestIsUnique
      <4>2. s = size
        BY <3>1, <3>2, <1>2, <1>3, WidestIsUnique
      <4> QED
        BY <4>1, <4>2
    <3>4. LeastAligned(total_size[on], size, align)
      BY <3>2, <3>3
    <3> QED
      BY <3>3, <3>4, <1>2, <1>5, <1>6, LeastIsUnique
  <2> QED
    BY <2>1, <2>2, <1>2
<1> QED
  BY <1>1, <1>2, <1>8

\* What is asked for was settled, and the loop does not unsettle it.
LEMMA AskedStep == NestInv /\ [Next]_vars /\ UnionInv' => AskedOfSettled'
<1> SUFFICES ASSUME NestInv, [Next]_vars, pc' = "layout for size" PROVE Settled(on)'
  BY DEF AskedOfSettled
<1>t. TypeInv /\ LayoutInv /\ UnionInv
  BY DEF NestInv, UnionInv, LayoutInv
<1>1. ASSUME ~Looping, NEW t \in Tag, Begin(t, "layout for size"),
             UNCHANGED <<sym_type, members, layout>>
      PROVE  Settled(on)'
  <2>1. Settled(t)
    BY <1>t, <1>1, IdleSymbols
  <2>2. Settled(t)'
    BY <1>t, <1>1, <2>1, SettledFrame DEF layout
  <2> QED
    BY <1>1, <2>2 DEF Begin, Settled, Finished, Fitted, IsLargest, LeastAligned, EndOf, Widest
<1>2. ASSUME NEW ty \in MemberType, AskMemberSize(ty) PROVE Settled(on)'
  BY <1>1, <1>2 DEF AskMemberSize, IsKnown, Looping
<1>3. ASSUME NEW t \in Tag, UseTag(t) PROVE Settled(on)'
  BY <1>1, <1>3 DEF UseTag, Looping
<1>4. ASSUME pc = "layout for size", on \in Tag,
             UNCHANGED <<sym_type, members, total_size, max_alignment, on>>,
             \A k \in 1 .. Len(members[on]) : offset'[on][k] = offset[on][k]
      PROVE  Settled(on)'
  <2>1. Settled(on)
    BY <1>4 DEF NestInv, AskedOfSettled
  <2> DEFINE t == on
  <2>2. Settled(t)
    BY <2>1
  <2>3. \A u \in Tag : u = on => Settled(u)'
    BY <1>t, <1>4, <2>1, SettledFrame
  <2> QED
    BY <1>4, <2>3 DEF Settled, Finished, Fitted, IsLargest, LeastAligned, EndOf, Widest
<1>5. CASE StructStep
  <2>1. /\ Looping /\ i <= Len(members[on]) /\ pc = "layout for size"
        /\ UNCHANGED <<sym_type, members, total_size, max_alignment, on>>
    BY <1>5 DEF StructStep
  <2>2. on \in Tag
    BY <1>t, <2>1, MemberType_
  <2>3. \A k \in 1 .. Len(members[on]) : offset'[on][k] = offset[on][k]
    <3>1. ~IsFresh(on, i)
      BY <2>1 DEF IsFresh
    <3> QED
      BY <1>t, <1>5, <3>1, StructStepPlaces
  <2> QED
    BY <1>4, <2>1, <2>2, <2>3
<1>6. CASE UnionStep
  <2>1. /\ Looping /\ i <= Len(members[on]) /\ pc = "layout for size"
        /\ UNCHANGED <<sym_type, members, total_size, max_alignment, on>>
    BY <1>6 DEF UnionStep
  <2>2. on \in Tag
    BY <1>t, <2>1, MemberType_
  <2>3. \A k \in 1 .. Len(members[on]) : offset'[on][k] = offset[on][k]
    BY <1>t, <1>6, UnionStepPlaces
  <2> QED
    BY <1>4, <2>1, <2>2, <2>3
<1>7. CASE UNCHANGED vars
  <2>1. UNCHANGED <<sym_type, members, offset, total_size, max_alignment, on, pc>>
    BY <1>7 DEF vars, layout, loop
  <2>2. on \in Tag
    BY <1>t, <2>1 DEF TypeInv, Control, Looping
  <2> QED
    BY <1>4, <2>1, <2>2
<1>8. ASSUME NEW ty, NEW sz, NEW al, AddMember(ty, sz, al) PROVE FALSE
  BY <1>8 DEF AddMember, Begin
<1>9. ASSUME NEW t, NEW kind, DefineTag(t, kind) PROVE FALSE
  BY <1>9 DEF DefineTag
<1>10. CASE EndOfMembers
  BY <1>10 DEF EndOfMembers, Begin
<1>11. CASE LayoutEnd
  BY <1>11 DEF LayoutEnd, Looping, AfterLoop
<1> QED
  BY <1>2, <1>3, <1>5, <1>6, <1>7, <1>8, <1>9, <1>10, <1>11
  DEF Next, AddSimpleMember, AddSizedMember

\* The type that is waiting for its size stays known: no tag is defined meanwhile.
LEMMA PendingStep == NestInv /\ [Next]_vars => PendingIsKnown'
<1> SUFFICES ASSUME NestInv, [Next]_vars PROVE PendingIsKnown'
  OBVIOUS
<1>t. TypeInv /\ PendingIsKnown
  BY DEF NestInv, UnionInv, LayoutInv
<1>1. ASSUME NEW ty \in MemberType, AskMemberSize(ty) PROVE PendingIsKnown'
  <2>1. pending' = ty /\ sym_type' = sym_type /\ ByValue(ty) /\ IsKnown(ty)
    BY <1>1 DEF AskMemberSize
  <2> QED
    BY <2>1 DEF PendingIsKnown, IsKnown, ByValue
<1>2. ASSUME pending' = pending, sym_type' = sym_type, Looping,
             pc' = pc \/ pc' = AfterLoop
      PROVE  PendingIsKnown'
  BY <1>t, <1>2 DEF PendingIsKnown, IsKnown, ByValue, Looping, AfterLoop
<1>3. CASE StructStep
  BY <1>2, <1>3 DEF StructStep
<1>4. CASE UnionStep
  BY <1>2, <1>4 DEF UnionStep
<1>5. CASE LayoutEnd
  BY <1>2, <1>5 DEF LayoutEnd
<1>6. CASE UNCHANGED vars
  <2>1. UNCHANGED <<sym_type, pending, pc>>
    BY <1>6 DEF vars
  <2> QED
    BY <1>t, <2>1 DEF PendingIsKnown, IsKnown, ByValue
<1>7. ASSUME NEW t \in Tag, UseTag(t) PROVE PendingIsKnown'
  <2>1. pending' = NoType /\ pc' = "layout for size"
    BY <1>t, <1>7 DEF UseTag, Begin, TypeInv, Control
  <2> QED
    BY <2>1 DEF PendingIsKnown
<1>8. ASSUME NEW ty, NEW sz, NEW al, AddMember(ty, sz, al) PROVE PendingIsKnown'
  <2>1. pc' = "layout for member"
    BY <1>8 DEF AddMember, Begin
  <2> QED
    BY <2>1 DEF PendingIsKnown
<1>9. ASSUME NEW t, NEW kind, DefineTag(t, kind) PROVE PendingIsKnown'
  <2>1. pc' = "members"
    BY <1>9 DEF DefineTag
  <2> QED
    BY <2>1 DEF PendingIsKnown
<1>10. CASE EndOfMembers
  <2>1. pc' = "layout for end"
    BY <1>10 DEF EndOfMembers, Begin
  <2> QED
    BY <2>1 DEF PendingIsKnown
<1> QED
  BY <1>1, <1>3, <1>4, <1>5, <1>6, <1>7, <1>8, <1>9, <1>10
  DEF Next, AddSimpleMember, AddSizedMember

\* What is contained goes on agreeing as long as symbols that are not being defined
\* keep their sizes, and none of them becomes the one being defined.
LEMMA ContainedFrame ==
    ASSUME ContainedAgree, members' = members,
           \A u \in Tag \ {cur} : sym_type[u] # "none" =>
               /\ u # cur'
               /\ sym_type'[u] = sym_type[u]
               /\ total_size'[u] = total_size[u]
               /\ max_alignment'[u] = max_alignment[u]
    PROVE  ContainedAgree'
<1> SUFFICES ASSUME NEW t \in Tag, NEW k \in 1 .. Len(members[t]),
                    Contained(members[t][k], t)
             PROVE  Agrees(members[t][k])'
  BY DEF ContainedAgree, Contained, ByValue
<1>1. Agrees(members[t][k])
  BY DEF ContainedAgree
<1> QED
  BY <1>1 DEF Agrees

\* A new member agrees if it was given the size its type has at that moment.
LEMMA ContainedGrows ==
    ASSUME TypeInv, ContainedAgree, pc \in {"members", "sized"},
           NEW ty \in MemberType, NEW sz \in Nat, NEW al \in Alignment, AddMember(ty, sz, al),
           ByValue(ty) /\ ty.base # cur /\ sz # 0 =>
               /\ IsKnown(ty)
               /\ sz = total_size[ty.base]
               /\ al = max_alignment[ty.base]
    PROVE  ContainedAgree'
<1>1. cur \in Tag
  BY DEF TypeInv, Control, Busy
<1> DEFINE m == [type |-> ty, size |-> sz, alignment |-> al]
<1>2. /\ members'[cur] = Append(members[cur], m)
      /\ \A t \in Tag : t # cur => members'[t] = members[t]
      /\ Len(members'[cur]) = Len(members[cur]) + 1
      /\ UNCHANGED <<sym_type, total_size, max_alignment, cur>>
  BY <1>1, AddMemberType DEF AddMember
<1>3. members[cur] \in Seq(MemberSymbol) /\ Len(members[cur]) \in Nat
  BY <1>1, MembersOf
<1>4. /\ \A k \in 1 .. Len(members[cur]) : members'[cur][k] = members[cur][k]
      /\ members'[cur][Len(members[cur]) + 1] = m
  <2> HIDE DEF m
  <2> QED
    BY <1>2, <1>3
<1>5. Contained(m, cur) => Agrees(m)
  <2>1. m.type = ty /\ m.size = sz /\ m.alignment = al
    OBVIOUS
  <2> HIDE DEF m
  <2>2. ByValue(ty) /\ IsKnown(ty) => ty.base \in Tag /\ sym_type[ty.base] # "none"
    BY DEF IsKnown
  <2> QED
    BY <2>1, <2>2 DEF Contained, Agrees
<1> HIDE DEF m
<1>6. \A x : Agrees(x) => Agrees(x)'
  BY <1>2 DEF Agrees
<1> SUFFICES ASSUME NEW t \in Tag, NEW k \in 1 .. Len(members'[t]),
                    Contained(members'[t][k], t)
             PROVE  \E x : x = members'[t][k] /\ Agrees(x)
  BY <1>6 DEF ContainedAgree, Contained, ByValue, Agrees
<1>7. CASE t # cur
  BY <1>2, <1>7 DEF ContainedAgree
<1>8. CASE t = cur /\ k \in 1 .. Len(members[cur])
  BY <1>4, <1>8 DEF ContainedAgree
<1>9. CASE t = cur /\ k = Len(members[cur]) + 1
  BY <1>4, <1>5, <1>9
<1>10. t = cur => k \in 1 .. Len(members[cur]) \/ k = Len(members[cur]) + 1
  BY <1>2, <1>3
<1> QED
  BY <1>7, <1>8, <1>9, <1>10

LEMMA ContainedStep == NestInv /\ [Next]_vars => ContainedAgree'
<1> SUFFICES ASSUME NestInv, [Next]_vars PROVE ContainedAgree'
  OBVIOUS
<1>t. TypeInv /\ ContainedAgree /\ PendingIsKnown
  BY DEF NestInv, UnionInv, LayoutInv
<1>s. UNCHANGED <<sym_type, members, total_size, max_alignment, cur>> => ContainedAgree'
  BY <1>t, ContainedFrame
<1>1. ASSUME NEW ty \in MemberType, AddSimpleMember(ty) PROVE ContainedAgree'
  <2>1. calculate_type_size(ty) \in Nat /\ calculate_type_alignment(ty) \in Alignment
    BY <1>t, SizeType, AlignmentType DEF TypeInv, TypeOK
  <2>2. ByValue(ty) => calculate_type_size(ty) = 0
    BY <1>1 DEF calculate_type_size, ByValue
  <2>3. /\ pc = "members"
        /\ AddMember(ty, calculate_type_size(ty), calculate_type_alignment(ty))
    BY <1>1 DEF AddSimpleMember
  <2> QED
    BY <1>t, <2>1, <2>2, <2>3, ContainedGrows
<1>2. CASE AddSizedMember
  <2>1. pending \in MemberType /\ pending.base \in Tag /\ pc = "sized"
    BY <1>t, <1>2 DEF TypeInv, Control, AddSizedMember
  <2>2. total_size[pending.base] \in Nat /\ calculate_type_alignment(pending) \in Alignment
    BY <1>t, <2>1, AlignmentType DEF TypeInv, TypeOK
  <2>3. ByValue(pending) /\ IsKnown(pending)
    BY <1>t, <2>1 DEF PendingIsKnown
  <2>4. calculate_type_alignment(pending) = max_alignment[pending.base]
    BY <2>3 DEF calculate_type_alignment, ByValue
  <2>5. AddMember(pending, total_size[pending.base], calculate_type_alignment(pending))
    BY <1>2 DEF AddSizedMember
  <2> QED
    BY <1>t, <2>1, <2>2, <2>3, <2>4, <2>5, ContainedGrows
<1>3. CASE LayoutEnd
  <2>1. /\ Looping /\ UNCHANGED <<sym_type, members>>
        /\ total_size' = [total_size EXCEPT ![on] = align_to(size, align)]
        /\ max_alignment' = [max_alignment EXCEPT ![on] = align]
        /\ cur' \in {cur, NoTag}
    BY <1>3 DEF LayoutEnd
  <2>2. pc # "layout for size" => on = cur
    BY <1>t, <2>1 DEF TypeInv, Control, Looping
  <2>3. \A u \in Tag \ {cur} : /\ total_size'[u] = total_size[u]
                               /\ max_alignment'[u] = max_alignment[u]
    <3>1. total_size \in [Tag -> Nat] /\ max_alignment \in [Tag -> Alignment]
      BY <1>t DEF TypeInv, TypeOK
    <3>2. CASE pc = "layout for size"
      BY <1>3, <3>2, AskingChangesNothing
    <3>3. CASE pc # "layout for size"
      BY <2>1, <2>2, <3>1, <3>3
    <3> QED
      BY <3>2, <3>3
  <2>4. \A u \in Tag \ {cur} : u # cur'
    BY <2>1, TagAssumption
  <2> QED
    BY <1>t, <2>1, <2>3, <2>4, ContainedFrame
<1>4. ASSUME NEW t \in Tag, NEW kind \in {"STRUCT", "UNION"}, DefineTag(t, kind)
      PROVE  ContainedAgree'
  <2>1. /\ sym_type[t] = "none" /\ sym_type' = [sym_type EXCEPT ![t] = kind] /\ cur' = t
        /\ UNCHANGED <<members, total_size, max_alignment>>
    BY <1>4 DEF DefineTag, layout
  <2>2. \A u \in Tag : sym_type[u] # "none" => u # t /\ sym_type'[u] = sym_type[u]
    BY <1>t, <2>1 DEF TypeInv, TypeOK
  <2> QED
    BY <1>t, <2>1, <2>2, ContainedFrame
<1>5. ASSUME NEW ty \in MemberType, AskMemberSize(ty) PROVE ContainedAgree'
  BY <1>s, <1>5 DEF AskMemberSize, layout
<1>6. CASE EndOfMembers
  BY <1>s, <1>6 DEF EndOfMembers, layout
<1>7. ASSUME NEW t \in Tag, UseTag(t) PROVE ContainedAgree'
  BY <1>s, <1>7 DEF UseTag, layout
<1>8. CASE StructStep
  BY <1>s, <1>8 DEF StructStep
<1>9. CASE UnionStep
  BY <1>s, <1>9 DEF UnionStep
<1>10. CASE UNCHANGED vars
  BY <1>s, <1>10 DEF vars, layout
<1> QED
  BY <1>1, <1>2, <1>3, <1>4, <1>5, <1>6, <1>7, <1>8, <1>9, <1>10 DEF Next

LEMMA NestInit == Init => NestInv
<1> SUFFICES ASSUME Init PROVE NestInv
  OBVIOUS
<1>1. pc = "idle" /\ \A t \in Tag : members[t] = <<>>
  BY DEF Init
<1>2. \A t \in Tag : \A k : k \notin 1 .. Len(members[t])
  BY <1>1
<1> QED
  BY <1>1, <1>2, UnionInit DEF NestInv, AskedOfSettled, PendingIsKnown, ContainedAgree

\* A struct within another has the size and the alignment of its own layout at all
\* times: calculate_type_size runs calculate_struct_size on it again whenever its size
\* is asked for, and what was copied into the member never becomes stale.
THEOREM NestedSizesAgreeCorrect == Spec => []NestedSizesAgree
<1>1. NestInv /\ [Next]_vars => NestInv'
  <2>1. NestInv => UnionInv
    BY DEF NestInv
  <2> QED
    BY <2>1, UnionInvStep, AskedStep, PendingStep, ContainedStep DEF NestInv
<1>2. NestInv => NestedSizesAgree
  <2> SUFFICES ASSUME NestInv, NEW t \in Tag, NEW k \in DOMAIN members[t],
                      Contained(members[t][k], t)
               PROVE  /\ members[t][k].size = total_size[members[t][k].type.base]
                      /\ members[t][k].alignment = max_alignment[members[t][k].type.base]
    BY DEF NestedSizesAgree, Contained
  <2>1. members[t] \in Seq(MemberSymbol)
    BY MembersOf DEF NestInv, UnionInv, LayoutInv
  <2>2. k \in 1 .. Len(members[t])
    BY <2>1
  <2>3. Agrees(members[t][k])
    BY <2>2 DEF NestInv, ContainedAgree
  <2> QED
    BY <2>3 DEF Agrees
<1> QED
  BY <1>1, <1>2, NestInit, PTL DEF Spec
===============================================================================
