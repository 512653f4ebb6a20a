---------------------------- MODULE HandshakesProofs ----------------------------
(***************************************************************************)
(* Theorems about Handshakes, for peers of any release and all they may    *)
(* say: the version under which both sides go on, and what each of them    *)
(* reads of a node, of an extension, of the interfaces and of the messages *)
(* by which the host registers its routes and asks for the settings.       *)
(***************************************************************************)
EXTENDS Handshakes, StreamCodecProofs

-----------------------------------------------------------------------------
(* Roles and dependencies. *)

\* A sequence, item by item.
LEMMA SequenceIs ==
    ASSUME NEW S, NEW s \in Seq(S)
    PROVE  /\ DOMAIN s = 1..Len(s) /\ s = [i \in 1..Len(s) |-> s[i]]
           /\ \A i \in 1..Len(s) : s[i] \in S
OBVIOUS

\* What ReadRole makes of its fields.
LEMMA RoleMade ==
    ASSUME NEW reader, \A x \in Cells : reader[x] = ReadRole(x)
    PROVE  /\ \A f : MakesOf(reader, RoleReaders, f,
                  [name |-> f[1], abbreviation |-> f[2], can_contain_data |-> f[3]])
           /\ Makes(reader, RoleReaders)
<1> DEFINE value(f) == [name |-> f[1], abbreviation |-> f[2], can_contain_data |-> f[3]]
           next(f, rest) == Reads(value(f), rest)
<1>1. \A x \in Cells : reader[x] = Then(ReadFields(RoleReaders, x), next)
  BY Zenon DEF ReadRole
<1>2. \A f, rest : Then(Reads(f, rest), next) = Reads(value(f), rest)
  <2>1. \A f, rest : Then(Reads(f, rest), next) = next(f, rest)
    <3> HIDE DEF next
    <3> QED
      BY ReadsFields DEF Then
  <2> QED
    BY <2>1, Zenon
<1>3. \A got : got.error # "none" => Then(got, next) = got
  <2> HIDE DEF next
  <2> QED
    BY DEF Then
<1> HIDE DEF next, value
<1>4. \A f : MakesOf(reader, RoleReaders, f, value(f))
  BY <1>1, <1>2 DEF MakesOf
<1>5. Makes(reader, RoleReaders)
  BY <1>1, <1>3, <1>4 DEF Makes
<1> QED
  BY <1>4, <1>5, Zenon DEF value

LEMMA RoleFits ==
    ASSUME NEW role \in NodeRoles PROVE Fits(Reader(ReadRole), WriteRole(role), role)
<1>1. PICK chunks, values :
         /\ chunks = <<WriteString(role.name), WriteString(role.abbreviation),
                       WriteBool(role.can_contain_data)>>
         /\ values = <<role.name, role.abbreviation, role.can_contain_data>>
  OBVIOUS
<1>2. AllFit(3, RoleReaders, chunks, values)
  <2>1. \A i \in 1..3 : Fits(RoleReaders[i], chunks[i], values[i])
    BY <1>1, StringFits, BoolFits DEF RoleReaders, NodeRoles
  <2> QED
    BY <1>1, <2>1 DEF AllFit, RoleReaders
<1>3. PICK reader : reader = Reader(ReadRole)
  OBVIOUS
<1>4. MakesOf(reader, RoleReaders, values, role)
  <2>1. MakesOf(reader, RoleReaders, values,
                [name |-> values[1], abbreviation |-> values[2], can_contain_data |-> values[3]])
    BY <1>3, RoleMade DEF Reader, Cells
  <2>2. role = [name |-> values[1], abbreviation |-> values[2], can_contain_data |-> values[3]]
    BY <1>1 DEF NodeRoles
  <2> QED
    BY <2>1, <2>2
<1> QED
  BY <1>1, <1>2, <1>3, <1>4, MessageFits DEF WriteRole

LEMMA RoleGoesOn == GoesOn(Reader(ReadRole))
<1>1. Len(RoleReaders) = 3 /\ \A i \in 1..3 : GoesOn(RoleReaders[i])
  BY StringGoesOnAsItem, BoolGoesOnAsItem DEF RoleReaders
<1>2. PICK reader : reader = Reader(ReadRole)
  OBVIOUS
<1>3. Makes(reader, RoleReaders)
  BY <1>2, RoleMade DEF Reader, Cells
<1> QED
  BY <1>1, <1>2, <1>3, MessageGoesOn

\* What ReadDependency makes of its fields.
LEMMA DependencyMade ==
    ASSUME NEW reader, \A x \in Cells : reader[x] = ReadDependency(x)
    PROVE  /\ \A f : MakesOf(reader, DependencyReaders, f,
                  [unique_id |-> f[1], version |-> f[2]])
           /\ Makes(reader, DependencyReaders)
<1> DEFINE value(f) == [unique_id |-> f[1], version |-> f[2]]
           next(f, rest) == Reads(value(f), rest)
<1>1. \A x \in Cells : reader[x] = Then(ReadFields(DependencyReaders, x), next)
  BY Zenon DEF ReadDependency
<1>2. \A f, rest : Then(Reads(f, rest), next) = Reads(value(f), rest)
  <2>1. \A f, rest : Then(Reads(f, rest), next) = next(f, rest)
    <3> HIDE DEF next
    <3> QED
      BY ReadsFields DEF Then
  <2> QED
    BY <2>1, Zenon
<1>3. \A got : got.error # "none" => Then(got, next) = got
  <2> HIDE DEF next
  <2> QED
    BY DEF Then
<1> HIDE DEF next, value
<1>4. \A f : MakesOf(reader, DependencyReaders, f, value(f))
  BY <1>1, <1>2 DEF MakesOf
<1>5. Makes(reader, DependencyReaders)
  BY <1>1, <1>3, <1>4 DEF Makes
<1> QED
  BY <1>4, <1>5, Zenon DEF value

\* A dependency fits and goes on.
LEMMA DependencyFits ==
    ASSUME NEW d \in Dependencies PROVE Fits(Reader(ReadDependency), WriteDependency(d), d)
<1>1. PICK chunks, values :
         /\ chunks = <<WriteString(d.unique_id), <<d.version>>>>
         /\ values = <<d.unique_id, d.version>>
  OBVIOUS
<1>2. AllFit(2, DependencyReaders, chunks, values)
  <2>1. \A i \in 1..2 : Fits(DependencyReaders[i], chunks[i], values[i])
    BY <1>1, StringFits, CellFits DEF DependencyReaders, Dependencies
  <2> QED
    BY <1>1, <2>1 DEF AllFit, DependencyReaders
<1>3. PICK reader : reader = Reader(ReadDependency)
  OBVIOUS
<1>4. MakesOf(reader, DependencyReaders, values, d)
  <2>1. MakesOf(reader, DependencyReaders, values,
                [unique_id |-> values[1], version |-> values[2]])
    BY <1>3, DependencyMade DEF Reader, Cells
  <2>2. d = [unique_id |-> values[1], version |-> values[2]]
    BY <1>1 DEF Dependencies
  <2> QED
    BY <2>1, <2>2
<1> QED
  BY <1>1, <1>2, <1>3, <1>4, MessageFits DEF WriteDependency

LEMMA DependencyGoesOn == GoesOn(Reader(ReadDependency))
<1>1. Len(DependencyReaders) = 2 /\ \A i \in 1..2 : GoesOn(DependencyReaders[i])
  BY StringGoesOnAsItem, CellGoesOnAsItem DEF DependencyReaders
<1>2. PICK reader : reader = Reader(ReadDependency)
  OBVIOUS
<1>3. Makes(reader, DependencyReaders)
  BY <1>2, DependencyMade DEF Reader, Cells
<1> QED
  BY <1>1, <1>2, <1>3, MessageGoesOn

\* So do lists of both, and the names of a node.
LEMMA RolesFit ==
    ASSUME NEW roles \in Seq(NodeRoles) PROVE Fits(Reader(ReadRoles), WriteRoles(roles), roles)
<1>1. PICK n, chunks :
         /\ n \in Nat /\ DOMAIN roles = 1..n /\ roles = [i \in 1..n |-> roles[i]]
         /\ chunks = [i \in DOMAIN roles |-> WriteRole(roles[i])]
  <2>1. PICK n \in Nat : n = Len(roles)
    OBVIOUS
  <2>2. DOMAIN roles = 1..n /\ roles = [i \in 1..n |-> roles[i]]
    BY <2>1, SequenceIs
  <2>3. PICK chunks : chunks = [i \in DOMAIN roles |-> WriteRole(roles[i])]
    OBVIOUS
  <2> QED
    BY <2>2, <2>3
<1>2. PICK item, reader :
         item = Reader(ReadRole) /\ reader = Reader(ReadRoles)
  OBVIOUS
<1>3. \A i \in 1..n : Fits(item, chunks[i], roles[i])
  BY <1>1, <1>2, RoleFits
<1>4. chunks = [i \in 1..n |-> chunks[i]]
  BY <1>1
<1>5. \A x \in Cells : reader[x] = ReadMany(item, x)
  BY <1>2 DEF Reader, ReadRoles, Cells
<1> QED
  BY <1>1, <1>2, <1>3, <1>4, <1>5, ListFits DEF WriteRoles

LEMMA RolesGoOn == GoesOn(Reader(ReadRoles))
BY RoleGoesOn, ManyGoOn DEF GoesOn, Reader, ReadRoles, Cells

LEMMA DependenciesFit ==
    ASSUME NEW list \in Seq(Dependencies)
    PROVE  Fits(Reader(ReadDependencies), WriteDependencies(list), list)
<1>1. PICK n, chunks :
         /\ n \in Nat /\ DOMAIN list = 1..n /\ list = [i \in 1..n |-> list[i]]
         /\ chunks = [i \in DOMAIN list |-> WriteDependency(list[i])]
  <2>1. PICK n \in Nat : n = Len(list)
    OBVIOUS
  <2>2. DOMAIN list = 1..n /\ list = [i \in 1..n |-> list[i]]
    BY <2>1, SequenceIs
  <2>3. PICK chunks : chunks = [i \in DOMAIN list |-> WriteDependency(list[i])]
    OBVIOUS
  <2> QED
    BY <2>2, <2>3
<1>2. PICK item, reader :
         item = Reader(ReadDependency) /\ reader = Reader(ReadDependencies)
  OBVIOUS
<1>3. \A i \in 1..n : Fits(item, chunks[i], list[i])
  BY <1>1, <1>2, DependencyFits
<1>4. chunks = [i \in 1..n |-> chunks[i]]
  BY <1>1
<1>5. \A x \in Cells : reader[x] = ReadMany(item, x)
  BY <1>2 DEF Reader, ReadDependencies, Cells
<1> QED
  BY <1>1, <1>2, <1>3, <1>4, <1>5, ListFits DEF WriteDependencies

LEMMA DependenciesGoOn == GoesOn(Reader(ReadDependencies))
BY DependencyGoesOn, ManyGoOn DEF GoesOn, Reader, ReadDependencies, Cells

LEMMA NamesFit ==
    ASSUME NEW names \in Seq(Strings), Len(names) = 5
    PROVE  Fits(Reader(ReadNames), WriteNames(names), names)
<1>1. PICK chunks, readers :
         /\ chunks = [i \in DOMAIN names |-> WriteString(names[i])]
         /\ readers = [i \in 1..5 |-> Reader(ReadString)]
  OBVIOUS
<1>2. AllFit(5, readers, chunks, names)
  <2>1. /\ DOMAIN names = 1..5 /\ names = [i \in 1..5 |-> names[i]]
        /\ \A i \in 1..5 : names[i] \in Strings
    BY SequenceIs
  <2>2. \A i \in 1..5 : Fits(readers[i], chunks[i], names[i])
    BY <1>1, <2>1, StringFits
  <2> QED
    BY <1>1, <2>1, <2>2 DEF AllFit
<1>3. PICK reader : reader = Reader(ReadNames)
  OBVIOUS
<1>4. MakesOf(reader, readers, names, names)
  BY <1>1, <1>3 DEF MakesOf, Reader, ReadNames, ReadItems, Cells
<1> QED
  BY <1>1, <1>2, <1>3, <1>4, MessageFits DEF WriteNames

LEMMA NamesGoOn == GoesOn(Reader(ReadNames))
<1>1. PICK readers : readers = [i \in 1..5 |-> Reader(ReadString)]
  OBVIOUS
<1>2. Len(readers) = 5 /\ \A i \in 1..5 : GoesOn(readers[i])
  BY <1>1, StringGoesOnAsItem
<1>3. PICK reader : reader = Reader(ReadNames)
  OBVIOUS
<1>4. \A x \in Cells : reader[x] = ReadFields(readers, x)
  BY <1>1, <1>3 DEF Reader, ReadNames, ReadItems, Cells
<1>5. Makes(reader, readers)
  <2>1. \A f : MakesOf(reader, readers, f, f)
    BY <1>4 DEF MakesOf
  <2> QED
    BY <1>4, <2>1 DEF Makes
<1> QED
  BY <1>2, <1>3, <1>5, MessageGoesOn

-----------------------------------------------------------------------------
(* Addresses. *)

LEMMA AddressMade ==
    ASSUME NEW reader, \A x \in Cells : reader[x] = ReadAddress(x)
    PROVE  /\ \A f : Len(f[1]) \in {1, 2} =>
                 MakesOf(reader, AddressReaders, f, [address |-> f[1], host_name |-> f[2], port |-> f[3]])
           /\ Makes(reader, AddressReaders)
<1> DEFINE value(f) == [address |-> f[1], host_name |-> f[2], port |-> f[3]]
           next(f, rest) ==
             IF Len(f[1]) \in {1, 2} THEN Reads(value(f), rest) ELSE Fails("data")
<1>1. \A x \in Cells : reader[x] = Then(ReadFields(AddressReaders, x), next)
  BY Zenon DEF ReadAddress
<1>2. \A f, rest : Then(Reads(f, rest), next)
                      = IF Len(f[1]) \in {1, 2} THEN Reads(value(f), rest) ELSE Fails("data")
  <2>1. \A f, rest : Then(Reads(f, rest), next) = next(f, rest)
    <3> HIDE DEF next
    <3> QED
      BY ReadsFields DEF Then
  <2> QED
    BY <2>1, Zenon
<1>3. \A got : got.error # "none" => Then(got, next) = got
  <2> HIDE DEF next
  <2> QED
    BY DEF Then
<1>4. Fails("data").error # "none"
  BY DEF Fails
<1> HIDE DEF next, value
<1>5. \A f : Len(f[1]) \in {1, 2} => MakesOf(reader, AddressReaders, f, value(f))
  BY <1>1, <1>2 DEF MakesOf
<1>6. \A f : Len(f[1]) \notin {1, 2} => Refuses(reader, AddressReaders, f)
  BY <1>1, <1>2, <1>4 DEF Refuses
<1>7. Makes(reader, AddressReaders)
  BY <1>1, <1>3, <1>5, <1>6 DEF Makes
<1> QED
  BY <1>5, <1>7, Zenon DEF value

LEMMA AddressFits ==
    ASSUME NEW a \in Addresses PROVE Fits(Reader(ReadAddress), WriteAddress(a), a)
<1>1. PICK chunks, values :
         /\ chunks = <<WriteByteArray(a.address), WriteString(a.host_name), <<a.port>>>>
         /\ values = <<a.address, a.host_name, a.port>>
  OBVIOUS
<1>2. a.address \in Cells /\ Len(a.address) \in {1, 2} /\ a.host_name \in Strings /\ a.port \in Nat
  BY DEF Addresses, Cells
<1>3. AllFit(3, AddressReaders, chunks, values)
  <2>1. \A i \in 1..3 : Fits(AddressReaders[i], chunks[i], values[i])
    BY <1>1, <1>2, BytesFit, StringFits, CellFits DEF AddressReaders
  <2> QED
    BY <1>1, <2>1 DEF AllFit, AddressReaders
<1>4. PICK reader : reader = Reader(ReadAddress)
  OBVIOUS
<1>5. MakesOf(reader, AddressReaders, values, a)
  <2>1. MakesOf(reader, AddressReaders, values,
                [address |-> values[1], host_name |-> values[2], port |-> values[3]])
    <3>1. Len(values[1]) \in {1, 2}
      BY <1>1, <1>2
    <3> QED
      BY <1>4, <3>1, AddressMade DEF Reader, Cells
  <2>2. a = [address |-> values[1], host_name |-> values[2], port |-> values[3]]
    BY <1>1 DEF Addresses
  <2> QED
    BY <2>1, <2>2
<1> QED
  BY <1>1, <1>3, <1>4, <1>5, MessageFits DEF WriteAddress

LEMMA AddressGoesOn == GoesOn(Reader(ReadAddress))
<1>1. Len(AddressReaders) = 3 /\ \A i \in 1..3 : GoesOn(AddressReaders[i])
  BY BytesGoOnAsItem, StringGoesOnAsItem, CellGoesOnAsItem DEF AddressReaders
<1>2. PICK reader : reader = Reader(ReadAddress)
  OBVIOUS
<1>3. Makes(reader, AddressReaders)
  BY <1>2, AddressMade DEF Reader, Cells
<1> QED
  BY <1>1, <1>2, <1>3, MessageGoesOn

AddressIn(input) == Then(ReadAddress(input), LAMBDA address, left : Reads(<<address>>, left))

\* The flag says whether an address follows.
LEMMA AddressFollows ==
    ASSUME NEW input, NEW version, OnOrAfter(version, STREAM_ADDRESS_RELEASE_ID),
           NEW rest, NEW some \in BOOLEAN, ReadBool(input) = Reads(some, rest)
    PROVE  ReadStreamAddress(input, version) = IF some THEN AddressIn(rest) ELSE Reads(<<>>, rest)
<1> DEFINE next(flag, left) == IF ~flag THEN Reads(<<>>, left) ELSE AddressIn(left)
<1>1. ReadStreamAddress(input, version) = Then(ReadBool(input), next)
  BY Zenon DEF ReadStreamAddress, AddressIn
<1>2. next(some, rest) = IF some THEN AddressIn(rest) ELSE Reads(<<>>, rest)
  BY Zenon
<1>3. Then(Reads(some, rest), next) = next(some, rest)
  <2> HIDE DEF next
  <2> QED
    BY ReadsFields DEF Then
<1> QED
  BY <1>1, <1>2, <1>3, Zenon

\* What a version tells of the stream address of a node.
StreamTold(node, version) ==
    IF OnOrAfter(version, STREAM_ADDRESS_RELEASE_ID) THEN node.stream_address ELSE <<>>

LEMMA StreamAddressReads ==
    ASSUME NEW node, IsNode(node), NEW version, NEW rest \in Cells
    PROVE  /\ ReadStreamAddress(WriteStreamAddress(node, version) \o rest, version)
                 = Reads(StreamTold(node, version), rest)
           /\ WriteStreamAddress(node, version) \in Cells
<1>1. CASE ~OnOrAfter(version, STREAM_ADDRESS_RELEASE_ID)
  <2>1. WriteStreamAddress(node, version) = <<>> /\ StreamTold(node, version) = <<>>
    BY <1>1 DEF WriteStreamAddress, StreamTold
  <2>2. \A x : ReadStreamAddress(x, version) = Reads(<<>>, x)
    BY <1>1 DEF ReadStreamAddress
  <2> QED
    BY <2>1, <2>2, NoCells, Concat
<1>2. CASE OnOrAfter(version, STREAM_ADDRESS_RELEASE_ID)
  <2>1. StreamTold(node, version) = node.stream_address
    BY <1>2 DEF StreamTold
  <2>2. PICK no \in Cells, yes \in Cells : no = WriteBool(FALSE) /\ yes = WriteBool(TRUE)
    BY BoolReads
  <2>3. \A x \in Cells : ReadBool(no \o x) = Reads(FALSE, x) /\ ReadBool(yes \o x) = Reads(TRUE, x)
    BY <2>2, BoolReads
  <2>4. CASE node.stream_address = <<>>
    <3>1. WriteStreamAddress(node, version) = no
      BY <1>2, <2>2, <2>4 DEF WriteStreamAddress
    <3>2. ReadStreamAddress(no \o rest, version) = Reads(<<>>, rest)
      BY <1>2, <2>3, AddressFollows
    <3> QED
      BY <2>1, <2>4, <3>1, <3>2
  <2>5. CASE node.stream_address # <<>>
    <3>1. PICK a \in Addresses : node.stream_address = <<a>>
      <4>1. PICK s : s = node.stream_address /\ s \in Seq(Addresses) /\ Len(s) <= 1 /\ s # <<>>
        BY <2>5 DEF IsNode
      <4>2. Len(s) = 1
        <5>1. PICK n \in Nat : n = Len(s) /\ n <= 1 /\ n # 0
          BY <4>1
        <5> QED
          BY <5>1
      <4>3. s[1] \in Addresses /\ s = <<s[1]>>
        BY <4>1, <4>2
      <4> QED
        BY <4>1, <4>3
    <3>2. PICK cells \in Cells : cells = WriteAddress(a) /\ Fits(Reader(ReadAddress), cells, a)
      BY AddressFits DEF Fits
    <3>3. PICK x \in Cells, all \in Cells : x = cells \o rest /\ all = yes \o cells
      BY Concat
    <3>4. WriteStreamAddress(node, version) = all
      <4>1. WriteStreamAddress(node, version) = WriteBool(TRUE) \o WriteAddress(node.stream_address[1])
        BY <1>2, <2>5, Zenon DEF WriteStreamAddress
      <4>2. node.stream_address[1] = a
        BY <3>1
      <4> QED
        BY <2>2, <3>2, <3>3, <4>1, <4>2
    <3>5. all \o rest = yes \o x
      <4>1. (yes \o cells) \o rest = yes \o (cells \o rest)
        BY ConcatRegroup, ZenonT(60)
      <4> QED
        BY <3>3, <4>1, Zenon
    <3>6. ReadAddress(x) = Reads(a, rest)
      <4>1. Reader(ReadAddress)[x] = Reads(a, rest)
        BY <3>2, <3>3 DEF Fits, ReadsAs
      <4> QED
        BY <4>1 DEF Reader, Cells
    <3>7. AddressIn(x) = Reads(<<a>>, rest)
      BY <3>6, ReadsFields DEF AddressIn, Then
    <3>8. ReadStreamAddress(yes \o x, version) = AddressIn(x)
      BY <1>2, <2>3, AddressFollows
    <3> QED
      BY <2>1, <3>1, <3>4, <3>5, <3>7, <3>8
  <2> QED
    BY <2>4, <2>5
<1> QED
  BY <1>1, <1>2

LEMMA StreamAddressGoesOn ==
    ASSUME NEW version, NEW p \in Cells, NEW y \in Cells, NEW s \in Cells, Parts(s, p, y)
    PROVE  Further(ReadStreamAddress(p, version), ReadStreamAddress(s, version), y)
<1> SUFFICES ASSUME ReadStreamAddress(p, version).error = "none"
             PROVE  Further(ReadStreamAddress(p, version), ReadStreamAddress(s, version), y)
  BY DEF Further
<1>1. CASE ~OnOrAfter(version, STREAM_ADDRESS_RELEASE_ID)
  <2>1. \A x : ReadStreamAddress(x, version) = Reads(<<>>, x)
    BY <1>1 DEF ReadStreamAddress
  <2> QED
    BY <2>1 DEF Further
<1>2. CASE OnOrAfter(version, STREAM_ADDRESS_RELEASE_ID)
  <2>1. ReadBool(p).error = "none"
    BY <1>2 DEF ReadStreamAddress, Then
  <2>2. PICK some \in BOOLEAN, r \in Cells, q \in Cells :
           ReadBool(p) = Reads(some, r) /\ ReadBool(s) = Reads(some, q) /\ Parts(q, r, y)
    BY <2>1, BoolGoesOn
  <2>3. ReadStreamAddress(p, version) = IF some THEN AddressIn(r) ELSE Reads(<<>>, r)
    BY <1>2, <2>2, AddressFollows, Zenon
  <2>4. ReadStreamAddress(s, version) = IF some THEN AddressIn(q) ELSE Reads(<<>>, q)
    BY <1>2, <2>2, AddressFollows, Zenon
  <2>5. CASE ~some
    BY <2>2, <2>3, <2>4, <2>5 DEF Further
  <2>6. CASE some
    <3>1. AddressIn(r).error = "none"
      BY <2>3, <2>6
    <3>2. ReadAddress(r).error = "none"
      BY <3>1 DEF AddressIn, Then
    <3>3. Further(ReadAddress(r), ReadAddress(q), y)
      BY <2>2, AddressGoesOn DEF GoesOn, Reader, Cells
    <3>4. PICK a, t, u :
             /\ t \in Cells /\ u \in Cells
             /\ ReadAddress(r) = Reads(a, t) /\ ReadAddress(q) = Reads(a, u) /\ Parts(u, t, y)
      BY <3>2, <3>3, FurtherReads
    <3>5. AddressIn(r) = Reads(<<a>>, t) /\ AddressIn(q) = Reads(<<a>>, u)
      BY <3>4, ReadsFields DEF AddressIn, Then
    <3> QED
      BY <2>3, <2>4, <2>6, <3>4, <3>5 DEF Further
  <2> QED
    BY <2>5, <2>6
<1> QED
  BY <1>1, <1>2

\* A stream address fits as far as the version tells it, and goes on.
LEMMA StreamAddressFits ==
    ASSUME NEW node, IsNode(node), NEW version,
           NEW reader, \A x \in Cells : reader[x] = ReadStreamAddress(x, version)
    PROVE  Fits(reader, WriteStreamAddress(node, version), StreamTold(node, version))
<1>1. PICK chunk \in Cells : chunk = WriteStreamAddress(node, version)
  BY StreamAddressReads, NoCells
<1>2. ASSUME NEW rest \in Cells PROVE reader[chunk \o rest] = Reads(StreamTold(node, version), rest)
  <2>1. PICK x \in Cells : x = chunk \o rest
    BY Concat
  <2>2. ReadStreamAddress(x, version) = Reads(StreamTold(node, version), rest)
    BY <1>1, <2>1, StreamAddressReads
  <2> QED
    BY <2>1, <2>2
<1> QED
  BY <1>1, <1>2 DEF Fits, ReadsAs

LEMMA StreamAddressGoesOnAsItem ==
    ASSUME NEW version, NEW reader, \A x \in Cells : reader[x] = ReadStreamAddress(x, version)
    PROVE  GoesOn(reader)
BY StreamAddressGoesOn DEF GoesOn

-----------------------------------------------------------------------------
(* Nodes. *)

\* What ReadNode makes of its fields.
LEMMA NodeMade ==
    ASSUME NEW version, NEW reader, \A x \in Cells : reader[x] = ReadNode(x, version)
    PROVE  /\ \A f : MakesOf(reader, NodeReaders(version), f,
                  [names |-> f[1], address |-> f[2], stream_address |-> f[3],
                   attributes |-> f[4], roles |-> f[5], version |-> f[6]])
           /\ Makes(reader, NodeReaders(version))
<1> DEFINE value(f) == [names |-> f[1], address |-> f[2], stream_address |-> f[3],
                   attributes |-> f[4], roles |-> f[5], version |-> f[6]]
           next(f, rest) == Reads(value(f), rest)
<1>1. \A x \in Cells : reader[x] = Then(ReadFields(NodeReaders(version), x), next)
  BY Zenon DEF ReadNode
<1>2. \A f, rest : Then(Reads(f, rest), next) = Reads(value(f), rest)
  <2>1. \A f, rest : Then(Reads(f, rest), next) = next(f, rest)
    <3> HIDE DEF next
    <3> QED
      BY ReadsFields DEF Then
  <2> QED
    BY <2>1, Zenon
<1>3. \A got : got.error # "none" => Then(got, next) = got
  <2> HIDE DEF next
  <2> QED
    BY DEF Then
<1> HIDE DEF next, value
<1>4. \A f : MakesOf(reader, NodeReaders(version), f, value(f))
  BY <1>1, <1>2 DEF MakesOf
<1>5. Makes(reader, NodeReaders(version))
  BY <1>1, <1>3, <1>4 DEF Makes
<1> QED
  BY <1>4, <1>5, Zenon DEF value

\* A node as a version tells it.
ToldBy(node, version) ==
    [names |-> node.names, address |-> node.address, stream_address |-> StreamTold(node, version),
     attributes |-> node.attributes, roles |-> node.roles, version |-> node.version]

LEMMA ToldIs ==
    ASSUME NEW node, IsNode(node), NEW version PROVE Told(node, version) = ToldBy(node, version)
<1>1. PICK names, address, stream_address, attributes, roles, own :
         node = [names |-> names, address |-> address, stream_address |-> stream_address,
                 attributes |-> attributes, roles |-> roles, version |-> own]
  BY DEF IsNode
<1>2. CASE OnOrAfter(version, STREAM_ADDRESS_RELEASE_ID)
  BY <1>1, <1>2 DEF Told, ToldBy, StreamTold
<1>3. CASE ~OnOrAfter(version, STREAM_ADDRESS_RELEASE_ID)
  BY <1>1, <1>3 DEF Told, ToldBy, StreamTold
<1> QED
  BY <1>2, <1>3

LEMMA NodeReadersAre ==
    ASSUME NEW version
    PROVE  /\ NodeReaders(version) = <<Reader(ReadNames), Reader(ReadAddress), NodeReaders(version)[3],
                 Reader(ReadStringMap), Reader(ReadRoles), Reader(ReadCell)>>
           /\ \A x \in Cells : NodeReaders(version)[3][x] = ReadStreamAddress(x, version)
<1>1. \A x \in Cells : NodeReaders(version)[3][x] = ReadStreamAddress(x, version)
  BY DEF NodeReaders, Reader, Cells
<1>2. NodeReaders(version) = <<Reader(ReadNames), Reader(ReadAddress), NodeReaders(version)[3],
                 Reader(ReadStringMap), Reader(ReadRoles), Reader(ReadCell)>>
  BY DEF NodeReaders
<1> QED
  BY <1>1, <1>2

\* A node fits as far as the version tells it, and goes on.
LEMMA NodeFits ==
    ASSUME NEW node, IsNode(node), NEW version,
           NEW reader, \A x \in Cells : reader[x] = ReadNode(x, version)
    PROVE  Fits(reader, WriteNode(node, version), Told(node, version))
<1>1. PICK chunks, values, readers :
         /\ chunks = <<WriteNames(node.names), WriteAddress(node.address), WriteStreamAddress(node, version),
                       WriteStringMap(node.attributes), WriteRoles(node.roles), <<node.version>>>>
         /\ values = <<node.names, node.address, StreamTold(node, version), node.attributes,
                       node.roles, node.version>>
         /\ readers = NodeReaders(version)
  OBVIOUS
<1>2. AllFit(6, readers, chunks, values)
  <2>1. PICK third : /\ \A x \in Cells : third[x] = ReadStreamAddress(x, version)
                     /\ readers = <<Reader(ReadNames), Reader(ReadAddress), third,
                                    Reader(ReadStringMap), Reader(ReadRoles), Reader(ReadCell)>>
    BY <1>1, NodeReadersAre
  <2>2. Fits(readers[1], chunks[1], values[1])
    BY <1>1, <2>1, NamesFit DEF IsNode
  <2>3. Fits(readers[2], chunks[2], values[2])
    BY <1>1, <2>1, AddressFits DEF IsNode
  <2>4. Fits(readers[3], chunks[3], values[3])
    BY <1>1, <2>1, StreamAddressFits
  <2>5. Fits(readers[4], chunks[4], values[4])
    BY <1>1, <2>1, StringMapFits DEF IsNode
  <2>6. Fits(readers[5], chunks[5], values[5])
    BY <1>1, <2>1, RolesFit DEF IsNode
  <2>7. Fits(readers[6], chunks[6], values[6])
    BY <1>1, <2>1, CellFits DEF IsNode
  <2> QED
    BY <1>1, <2>1, <2>2, <2>3, <2>4, <2>5, <2>6, <2>7 DEF AllFit
<1>3. MakesOf(reader, readers, values, Told(node, version))
  <2>1. MakesOf(reader, readers, values,
            [names |-> values[1], address |-> values[2], stream_address |-> values[3],
             attributes |-> values[4], roles |-> values[5], version |-> values[6]])
    BY <1>1, NodeMade
  <2>2. ToldBy(node, version) = [names |-> values[1], address |-> values[2], stream_address |-> values[3],
             attributes |-> values[4], roles |-> values[5], version |-> values[6]]
    BY <1>1 DEF ToldBy
  <2> QED
    BY <2>1, <2>2, ToldIs
<1> QED
  BY <1>1, <1>2, <1>3, MessageFits DEF WriteNode

LEMMA NodeGoesOn ==
    ASSUME NEW version, NEW reader, \A x \in Cells : reader[x] = ReadNode(x, version)
    PROVE  GoesOn(reader)
<1>1. PICK readers : readers = NodeReaders(version)
  OBVIOUS
<1>2. Len(readers) = 6 /\ \A i \in 1..6 : GoesOn(readers[i])
  <2>1. PICK third : /\ \A x \in Cells : third[x] = ReadStreamAddress(x, version)
                     /\ readers = <<Reader(ReadNames), Reader(ReadAddress), third,
                                    Reader(ReadStringMap), Reader(ReadRoles), Reader(ReadCell)>>
    BY <1>1, NodeReadersAre
  <2>2. GoesOn(third)
    BY <2>1, StreamAddressGoesOnAsItem
  <2>3. GoesOn(Reader(ReadStringMap))
    BY MapGoesOn, StringGoesOnAsItem DEF GoesOn, Reader, ReadStringMap, Cells
  <2> QED
    BY <2>1, <2>2, <2>3, NamesGoOn, AddressGoesOn, RolesGoOn, CellGoesOnAsItem
<1>3. Makes(reader, readers)
  BY <1>1, NodeMade
<1> QED
  BY <1>2, <1>3, MessageGoesOn

-----------------------------------------------------------------------------
(* The extension, and what follows the task id of an init request. *)

\* What ReadExtensionNode makes of its fields.
LEMMA ExtensionMade ==
    ASSUME NEW version, NEW reader, \A x \in Cells : reader[x] = ReadExtensionNode(x, version)
    PROVE  /\ \A f : MakesOf(reader, ExtensionReaders(version), f,
                  [discovery_node |-> f[1], minimum_compatible_version |-> f[2], dependencies |-> f[3]])
           /\ Makes(reader, ExtensionReaders(version))
<1> DEFINE value(f) == [discovery_node |-> f[1], minimum_compatible_version |-> f[2], dependencies |-> f[3]]
           next(f, rest) == Reads(value(f), rest)
<1>1. \A x \in Cells : reader[x] = Then(ReadFields(ExtensionReaders(version), x), next)
  BY Zenon DEF ReadExtensionNode
<1>2. \A f, rest : Then(Reads(f, rest), next) = Reads(value(f), rest)
  <2>1. \A f, rest : Then(Reads(f, rest), next) = next(f, rest)
    <3> HIDE DEF next
    <3> QED
      BY ReadsFields DEF Then
  <2> QED
    BY <2>1, Zenon
<1>3. \A got : got.error # "none" => Then(got, next) = got
  <2> HIDE DEF next
  <2> QED
    BY DEF Then
<1> HIDE DEF next, value
<1>4. \A f : MakesOf(reader, ExtensionReaders(version), f, value(f))
  BY <1>1, <1>2 DEF MakesOf
<1>5. Makes(reader, ExtensionReaders(version))
  BY <1>1, <1>3, <1>4 DEF Makes
<1> QED
  BY <1>4, <1>5, Zenon DEF value

LEMMA ExtensionReadersAre ==
    ASSUME NEW version
    PROVE  /\ ExtensionReaders(version) =
                 <<ExtensionReaders(version)[1], Reader(ReadCell), Reader(ReadDependencies)>>
           /\ \A x \in Cells : ExtensionReaders(version)[1][x] = ReadNode(x, version)
<1>1. \A x \in Cells : ExtensionReaders(version)[1][x] = ReadNode(x, version)
  BY DEF ExtensionReaders, Reader, Cells
<1>2. ExtensionReaders(version) =
         <<ExtensionReaders(version)[1], Reader(ReadCell), Reader(ReadDependencies)>>
  BY DEF ExtensionReaders
<1> QED
  BY <1>1, <1>2

\* The extension as a version tells it.
ToldExtension(extension, version) ==
    [discovery_node |-> Told(extension.discovery_node, version),
     minimum_compatible_version |-> extension.minimum_compatible_version,
     dependencies |-> extension.dependencies]

LEMMA ExtensionFits ==
    ASSUME NEW extension, IsExtensionNode(extension), NEW version,
           NEW reader, \A x \in Cells : reader[x] = ReadExtensionNode(x, version)
    PROVE  Fits(reader, WriteExtensionNode(extension, version), ToldExtension(extension, version))
<1>1. PICK chunks, values, readers :
         /\ chunks = <<WriteNode(extension.discovery_node, version),
                       <<extension.minimum_compatible_version>>,
                       WriteDependencies(extension.dependencies)>>
         /\ values = <<Told(extension.discovery_node, version), extension.minimum_compatible_version,
                       extension.dependencies>>
         /\ readers = ExtensionReaders(version)
  OBVIOUS
<1>2. AllFit(3, readers, chunks, values)
  <2>1. PICK first : /\ \A x \in Cells : first[x] = ReadNode(x, version)
                     /\ readers = <<first, Reader(ReadCell), Reader(ReadDependencies)>>
    BY <1>1, ExtensionReadersAre
  <2>2. Fits(readers[1], chunks[1], values[1])
    BY <1>1, <2>1, NodeFits DEF IsExtensionNode
  <2>3. Fits(readers[2], chunks[2], values[2])
    BY <1>1, <2>1, CellFits DEF IsExtensionNode
  <2>4. Fits(readers[3], chunks[3], values[3])
    BY <1>1, <2>1, DependenciesFit DEF IsExtensionNode
  <2> QED
    BY <1>1, <2>1, <2>2, <2>3, <2>4 DEF AllFit
<1>3. MakesOf(reader, readers, values, ToldExtension(extension, version))
  <2>1. MakesOf(reader, readers, values,
            [discovery_node |-> values[1], minimum_compatible_version |-> values[2],
             dependencies |-> values[3]])
    BY <1>1, ExtensionMade
  <2>2. ToldExtension(extension, version) =
            [discovery_node |-> values[1], minimum_compatible_version |-> values[2],
             dependencies |-> values[3]]
    BY <1>1 DEF ToldExtension
  <2> QED
    BY <2>1, <2>2
<1> QED
  BY <1>1, <1>2, <1>3, MessageFits DEF WriteExtensionNode

LEMMA ExtensionGoesOn ==
    ASSUME NEW version, NEW reader, \A x \in Cells : reader[x] = ReadExtensionNode(x, version)
    PROVE  GoesOn(reader)
<1>1. PICK readers : readers = ExtensionReaders(version)
  OBVIOUS
<1>2. Len(readers) = 3 /\ \A i \in 1..3 : GoesOn(readers[i])
  <2>1. PICK first : /\ \A x \in Cells : first[x] = ReadNode(x, version)
                     /\ readers = <<first, Reader(ReadCell), Reader(ReadDependencies)>>
    BY <1>1, ExtensionReadersAre
  <2>2. GoesOn(first)
    BY <2>1, NodeGoesOn
  <2> QED
    BY <2>1, <2>2, CellGoesOnAsItem, DependenciesGoOn
<1>3. Makes(reader, readers)
  BY <1>1, ExtensionMade
<1> QED
  BY <1>2, <1>3, MessageGoesOn

\* What ReadInitializeRequest makes of its fields.
LEMMA InitializeMade ==
    ASSUME NEW version, NEW reader, \A x \in Cells : reader[x] = ReadInitializeRequest(x, version)
    PROVE  /\ \A f : MakesOf(reader, InitializeReaders(version), f,
                  [source_node |-> f[1], extension |-> f[2], service_account_header |-> f[3]])
           /\ Makes(reader, InitializeReaders(version))
<1> DEFINE value(f) == [source_node |-> f[1], extension |-> f[2], service_account_header |-> f[3]]
           next(f, rest) == Reads(value(f), rest)
<1>1. \A x \in Cells : reader[x] = Then(ReadFields(InitializeReaders(version), x), next)
  BY Zenon DEF ReadInitializeRequest
<1>2. \A f, rest : Then(Reads(f, rest), next) = Reads(value(f), rest)
  <2>1. \A f, rest : Then(Reads(f, rest), next) = next(f, rest)
    <3> HIDE DEF next
    <3> QED
      BY ReadsFields DEF Then
  <2> QED
    BY <2>1, Zenon
<1>3. \A got : got.error # "none" => Then(got, next) = got
  <2> HIDE DEF next
  <2> QED
    BY DEF Then
<1> HIDE DEF next, value
<1>4. \A f : MakesOf(reader, InitializeReaders(version), f, value(f))
  BY <1>1, <1>2 DEF MakesOf
<1>5. Makes(reader, InitializeReaders(version))
  BY <1>1, <1>3, <1>4 DEF Makes
<1> QED
  BY <1>4, <1>5, Zenon DEF value

LEMMA InitializeReadersAre ==
    ASSUME NEW version
    PROVE  /\ InitializeReaders(version) =
                 <<InitializeReaders(version)[1], InitializeReaders(version)[2], Reader(ReadString)>>
           /\ \A x \in Cells : /\ InitializeReaders(version)[1][x] = ReadNode(x, version)
                               /\ InitializeReaders(version)[2][x] = ReadExtensionNode(x, version)
<1>1. \A x \in Cells : InitializeReaders(version)[1][x] = ReadNode(x, version)
  BY DEF InitializeReaders, Reader, Cells
<1>2. \A x \in Cells : InitializeReaders(version)[2][x] = ReadExtensionNode(x, version)
  BY DEF InitializeReaders, Reader, Cells
<1>3. InitializeReaders(version) =
         <<InitializeReaders(version)[1], InitializeReaders(version)[2], Reader(ReadString)>>
  BY DEF InitializeReaders
<1> QED
  BY <1>1, <1>2, <1>3

\* The init request, as a peer means it.
IsInit(init) ==
    /\ IsTask(init.task) /\ IsNode(init.source_node) /\ IsExtensionNode(init.extension)
    /\ init.service_account_header \in Strings

\* What is written behind its task id, and what it is read as.
InitCells(init, version) ==
    FlattenSeq(<<WriteNode(init.source_node, version), WriteExtensionNode(init.extension, version),
                 WriteString(init.service_account_header)>>)

ToldInit(init, version) ==
    [source_node |-> Told(init.source_node, version),
     extension |-> ToldExtension(init.extension, version),
     service_account_header |-> init.service_account_header]

LEMMA InitializeFits ==
    ASSUME NEW init, IsInit(init), NEW version,
           NEW reader, \A x \in Cells : reader[x] = ReadInitializeRequest(x, version)
    PROVE  Fits(reader, InitCells(init, version), ToldInit(init, version))
<1>1. PICK chunks, values, readers :
         /\ chunks = <<WriteNode(init.source_node, version), WriteExtensionNode(init.extension, version),
                       WriteString(init.service_account_header)>>
         /\ values = <<Told(init.source_node, version), ToldExtension(init.extension, version),
                       init.service_account_header>>
         /\ readers = InitializeReaders(version)
  OBVIOUS
<1>2. AllFit(3, readers, chunks, values)
  <2>1. PICK first, second :
           /\ \A x \in Cells : first[x] = ReadNode(x, version) /\ second[x] = ReadExtensionNode(x, version)
           /\ readers = <<first, second, Reader(ReadString)>>
    BY <1>1, InitializeReadersAre
  <2>2. Fits(readers[1], chunks[1], values[1])
    BY <1>1, <2>1, NodeFits DEF IsInit
  <2>3. Fits(readers[2], chunks[2], values[2])
    BY <1>1, <2>1, ExtensionFits DEF IsInit
  <2>4. Fits(readers[3], chunks[3], values[3])
    BY <1>1, <2>1, StringFits DEF IsInit
  <2> QED
    BY <1>1, <2>1, <2>2, <2>3, <2>4 DEF AllFit
<1>3. MakesOf(reader, readers, values, ToldInit(init, version))
  <2>1. MakesOf(reader, readers, values,
            [source_node |-> values[1], extension |-> values[2], service_account_header |-> values[3]])
    BY <1>1, InitializeMade
  <2>2. ToldInit(init, version) =
            [source_node |-> values[1], extension |-> values[2], service_account_header |-> values[3]]
    BY <1>1 DEF ToldInit
  <2> QED
    BY <2>1, <2>2
<1> QED
  BY <1>1, <1>2, <1>3, MessageFits DEF InitCells

LEMMA InitializeGoesOn ==
    ASSUME NEW version, NEW reader, \A x \in Cells : reader[x] = ReadInitializeRequest(x, version)
    PROVE  GoesOn(reader)
<1>1. PICK readers : readers = InitializeReaders(version)
  OBVIOUS
<1>2. Len(readers) = 3 /\ \A i \in 1..3 : GoesOn(readers[i])
  <2>1. PICK first, second :
           /\ \A x \in Cells : first[x] = ReadNode(x, version) /\ second[x] = ReadExtensionNode(x, version)
           /\ readers = <<first, second, Reader(ReadString)>>
    BY <1>1, InitializeReadersAre
  <2>2. GoesOn(first) /\ GoesOn(second)
    BY <2>1, NodeGoesOn, ExtensionGoesOn
  <2> QED
    BY <2>1, <2>2, StringGoesOnAsItem
<1>3. Makes(reader, readers)
  BY <1>1, InitializeMade
<1> QED
  BY <1>2, <1>3, MessageGoesOn

\* The init request behind its task id.
InitOf(input, version) == ReadInit([version |-> version, body |-> input])

LEMMA TaskBefore ==
    ASSUME NEW input, NEW version
    PROVE  /\ \A task, rest : ReadTaskId(input) = Reads(task, rest) =>
                 InitOf(input, version) = ReadInitializeRequest(rest, version)
           /\ ReadTaskId(input).error # "none" => InitOf(input, version).error # "none"
<1>1. PICK frame : frame = [version |-> version, body |-> input]
  OBVIOUS
<1>2. frame.version = version /\ frame.body = input /\ InitOf(input, version) = ReadInit(frame)
  BY <1>1 DEF InitOf
<1> DEFINE next(task, rest) == ReadInitializeRequest(rest, frame.version)
<1>3. ReadInit(frame) = Then(ReadTaskId(frame.body), next)
  BY Zenon DEF ReadInit
<1>4. \A task, rest : next(task, rest) = ReadInitializeRequest(rest, frame.version)
  BY Zenon
<1>5. /\ \A task, rest : Then(Reads(task, rest), next) = next(task, rest)
      /\ \A result : result.error # "none" => Then(result, next) = result
  <2> HIDE DEF next
  <2> QED
    BY ReadsFields DEF Then
<1> HIDE DEF next
<1> QED
  BY <1>2, <1>3, <1>4, <1>5

\* The whole request is read as the version tells it.
LEMMA InitReads ==
    ASSUME NEW init, IsInit(init), NEW version
    PROVE  /\ WriteInit(init, version) \in Cells
           /\ InitOf(WriteInit(init, version), version) = Reads(ToldInit(init, version), <<>>)
<1>1. PICK reader : reader = [x \in Cells |-> ReadInitializeRequest(x, version)]
  OBVIOUS
<1>2. PICK cells \in Cells : cells = InitCells(init, version) /\ ReadsAs(reader, cells, ToldInit(init, version))
  <2>1. Fits(reader, InitCells(init, version), ToldInit(init, version))
    BY <1>1, InitializeFits
  <2> QED
    BY <2>1 DEF Fits
<1>3. ReadInitializeRequest(cells, version) = Reads(ToldInit(init, version), <<>>)
  <2>1. cells \o <<>> = cells
    BY NoCells, Concat
  <2>2. reader[cells \o <<>>] = Reads(ToldInit(init, version), <<>>)
    BY <1>2, NoCells DEF ReadsAs
  <2> QED
    BY <1>1, <2>1, <2>2
<1>4. PICK task \in Cells : task = WriteTaskId(init.task)
  BY TaskIdReads, NoCells DEF IsInit
<1>5. ReadTaskId(task \o cells) = Reads(TaskOf(init.task), cells)
  BY <1>4, TaskIdReads DEF IsInit
<1>6. WriteInit(init, version) = task \o cells
  BY <1>2, <1>4 DEF WriteInit, InitCells
<1> QED
  BY <1>3, <1>5, <1>6, TaskBefore, Concat

\* It goes on with more input, so that no first part is taken for the whole.
LEMMA InitGoesOn ==
    ASSUME NEW version, NEW p \in Cells, NEW y \in Cells, NEW s \in Cells, Parts(s, p, y)
    PROVE  Further(InitOf(p, version), InitOf(s, version), y)
<1> SUFFICES ASSUME InitOf(p, version).error = "none"
             PROVE  Further(InitOf(p, version), InitOf(s, version), y)
  BY DEF Further
<1>1. ReadTaskId(p).error = "none" /\ Further(ReadTaskId(p), ReadTaskId(s), y)
  BY TaskBefore, TaskIdGoesOn
<1>2. PICK task, r, q :
         /\ r \in Cells /\ q \in Cells
         /\ ReadTaskId(p) = Reads(task, r) /\ ReadTaskId(s) = Reads(task, q) /\ Parts(q, r, y)
  BY <1>1, FurtherReads
<1>3. /\ InitOf(p, version) = ReadInitializeRequest(r, version)
      /\ InitOf(s, version) = ReadInitializeRequest(q, version)
  BY <1>2, TaskBefore
<1>4. PICK reader : reader = [x \in Cells |-> ReadInitializeRequest(x, version)]
  OBVIOUS
<1>5. Further(reader[r], reader[q], y)
  BY <1>2, <1>4, InitializeGoesOn DEF GoesOn
<1> QED
  BY <1>2, <1>3, <1>4, <1>5

LEMMA InitCut ==
    ASSUME NEW init, IsInit(init), NEW version, NEW n \in 0..Len(WriteInit(init, version))
    PROVE  LET cut == SubSeq(WriteInit(init, version), 1, n)
           IN  IF cut = WriteInit(init, version)
               THEN InitOf(cut, version) = Reads(ToldInit(init, version), <<>>)
               ELSE InitOf(cut, version).error # "none"
<1>1. PICK cells \in Cells : cells = WriteInit(init, version)
  BY InitReads
<1>2. PICK p \in Cells, y \in Cells : Split(cells, n, p, y)
  BY <1>1, CellsSplit
<1>3. p = SubSeq(WriteInit(init, version), 1, n) /\ Parts(cells, p, y)
  BY <1>1, <1>2 DEF Split, Parts
<1>4. CASE p = cells
  BY <1>1, <1>3, <1>4, InitReads
<1>5. CASE p # cells
  <2>1. y # <<>>
    BY <1>3, <1>5, Concat DEF Parts
  <2>2. Further(InitOf(p, version), InitOf(cells, version), y)
    BY <1>3, InitGoesOn
  <2>3. InitOf(cells, version) = Reads(ToldInit(init, version), <<>>)
    BY <1>1, InitReads
  <2>4. InitOf(p, version).error # "none"
    BY <2>1, <2>2, <2>3, CutRefused
  <2> QED
    BY <1>1, <1>3, <1>5, <2>4
<1> QED
  BY <1>4, <1>5

-----------------------------------------------------------------------------
(* What the host says of itself. *)

\* Numbers below 128 are the bytes of a string.
LEMMA Ascii == ASSUME NEW s \in Seq(0..127) PROVE s \in Strings
<1>1. PICK n \in Nat : n = Len(s)
  OBVIOUS
<1>2. \A i \in 1..n : s[i] \in 0..127
  BY <1>1
<1>3. s \in Seq(Nat)
  <2>1. \A k \in 0..127 : k \in Nat
    OBVIOUS
  <2>2. s = [i \in 1..n |-> s[i]]
    BY <1>1
  <2>3. \A i \in 1..n : s[i] \in Nat
    BY <1>2, <2>1
  <2> QED
    BY <2>2, <2>3
<1>4. \A i \in 1..n : s[i] < 128 /\ s[i] \notin LeadBytes \cup TrailBytes
  <2>1. \A k \in 0..127 : k < 128 /\ k \notin LeadBytes \cup TrailBytes
    BY DEF LeadBytes, TrailBytes
  <2> QED
    BY <1>2, <2>1
<1>5. \A i \in 0..n : (i > 0 => i \in 1..n) /\ (i < n => i + 1 \in 1..n)
  OBVIOUS
<1>6. IsUtf8(s)
  BY <1>1, <1>4, <1>5 DEF IsUtf8
<1> QED
  BY <1>3, <1>6 DEF Strings

\* The address and port the host has are ones a peer can be told.
IsConfiguration(m) ==
    m.host_address \in Seq(0..9) /\ Len(m.host_address) \in {1, 2} /\ m.port \in Nat

LEMMA TextIs ==
    ASSUME NEW octets \in Seq(0..9) PROVE Text(octets) \in Strings
<1>1. PICK n \in Nat : n = Len(octets) /\ DOMAIN octets = 1..n
  OBVIOUS
<1>2. \A i \in 1..n : octets[i] \in 0..9
  BY <1>1
<1>3. \A i \in 1..n : 48 + octets[i] \in 0..127
  <2>1. \A k \in 0..9 : 48 + k \in 0..127
    OBVIOUS
  <2> QED
    BY <1>2, <2>1
<1>4. Text(octets) = [i \in 1..n |-> 48 + octets[i]]
  BY <1>1 DEF Text
<1>5. Text(octets) \in Seq(0..127)
  BY <1>3, <1>4
<1> QED
  BY <1>5, Ascii

LEMMA AddressIs ==
    ASSUME NEW octets \in Seq(0..9), Len(octets) \in {1, 2}, NEW port \in Nat
    PROVE  TransportAddress(octets, port) \in Addresses
<1>1. octets \in Seq(Nat)
  <2>1. PICK n \in Nat : n = Len(octets)
    OBVIOUS
  <2>2. octets = [i \in 1..n |-> octets[i]] /\ \A i \in 1..n : octets[i] \in Nat
    BY <2>1
  <2> QED
    BY <2>2
<1> QED
  BY <1>1, TextIs DEF TransportAddress, Addresses

LEMMA RolesAre == Roles \in Seq(NodeRoles)
<1>1. \A a \in 0..127 : <<a>> \in Strings
  <2> SUFFICES ASSUME NEW a \in 0..127 PROVE <<a>> \in Strings
    OBVIOUS
  <2>1. <<a>> \in Seq(0..127)
    OBVIOUS
  <2> QED
    BY <2>1, Ascii
<1>2. \A a, b \in 0..127 : \A flag \in BOOLEAN : Role(<<a>>, <<b>>, flag) \in NodeRoles
  <2> SUFFICES ASSUME NEW a \in 0..127, NEW b \in 0..127, NEW flag \in BOOLEAN
               PROVE  Role(<<a>>, <<b>>, flag) \in NodeRoles
    OBVIOUS
  <2> QED
    BY <1>1 DEF Role, NodeRoles
<1>3. 99 \in 0..127 /\ 100 \in 0..127 /\ 105 \in 0..127 /\ 109 \in 0..127 /\ 114 \in 0..127
  OBVIOUS
<1>4. /\ Role(<<99>>, <<109>>, FALSE) \in NodeRoles /\ Role(<<100>>, <<100>>, TRUE) \in NodeRoles
      /\ Role(<<105>>, <<105>>, FALSE) \in NodeRoles /\ Role(<<114>>, <<114>>, FALSE) \in NodeRoles
  BY <1>2, <1>3, Zenon
<1>5. \A a, b, c, d \in NodeRoles : <<a, b, c, d>> \in Seq(NodeRoles)
  OBVIOUS
<1> QED
  BY <1>4, <1>5, Zenon DEF Roles

\* The node of the host is one, and every version tells all of it.
LEMMA HostNode ==
    ASSUME IsConfiguration(metadata)
    PROVE  IsNode(DiscoveryNode) /\ \A version : Told(DiscoveryNode, version) = DiscoveryNode
<1>1. PICK node : node = DiscoveryNode
  OBVIOUS
<1>2. PICK text \in Strings, address \in Addresses :
         /\ text = Text(metadata.host_address)
         /\ address = TransportAddress(metadata.host_address, metadata.port)
  BY TextIs, AddressIs DEF IsConfiguration
<1>3. UNIQUE_ID \in Strings /\ Ephemeral(UNIQUE_ID) \in Strings
  <2>1. UNIQUE_ID \in Seq(0..127) /\ Ephemeral(UNIQUE_ID) \in Seq(0..127)
    BY DEF UNIQUE_ID, Ephemeral
  <2> QED
    BY <2>1, Ascii
<1>4. PICK names \in Seq(Strings) :
         Len(names) = 5 /\ names = <<UNIQUE_ID, UNIQUE_ID, Ephemeral(UNIQUE_ID), text, text>>
  <2>1. <<UNIQUE_ID, UNIQUE_ID, Ephemeral(UNIQUE_ID), text, text>> \in Seq(Strings)
    BY <1>3
  <2> QED
    BY <2>1
<1>5. PICK attributes : attributes = [k \in {} |-> k] /\ IsMap(attributes, Strings)
  <2>1. {} \in StringSets
    BY FS_EmptySet DEF StringSets
  <2>2. PICK attributes : attributes = [k \in {} |-> k]
    OBVIOUS
  <2>3. DOMAIN attributes = {} /\ attributes = [k \in DOMAIN attributes |-> attributes[k]]
    BY <2>2
  <2>4. IsMap(attributes, Strings)
    BY <2>1, <2>3 DEF IsMap
  <2> QED
    BY <2>2, <2>4
<1>6. PICK version \in Nat : version = FromReleaseId(CURRENT_RELEASE_ID)
  BY DEF FromReleaseId, CURRENT_RELEASE_ID, MASK
<1>7. node = [names |-> names, address |-> address, stream_address |-> <<>>,
              attributes |-> attributes, roles |-> Roles, version |-> version]
  BY <1>1, <1>2, <1>4, <1>5, <1>6 DEF DiscoveryNode
<1>8. IsNode(node)
  BY <1>4, <1>5, <1>7, RolesAre DEF IsNode
<1>9. ASSUME NEW other PROVE Told(node, other) = node
  <2>1. StreamTold(node, other) = <<>>
    BY <1>7 DEF StreamTold
  <2>2. ToldBy(node, other) = node
    BY <1>7, <2>1 DEF ToldBy
  <2> QED
    BY <1>8, <2>2, ToldIs
<1> QED
  BY <1>1, <1>8, <1>9

-----------------------------------------------------------------------------
(* What the host writes. *)

LEMMA HandshakeReadersAre ==
    ASSUME NEW version
    PROVE  /\ HandshakeReaders(version) =
                 <<Reader(ReadBool), HandshakeReaders(version)[2], Reader(ReadString), Reader(ReadCell)>>
           /\ \A x \in Cells : HandshakeReaders(version)[2][x] = ReadNode(x, version)
<1>1. \A x \in Cells : HandshakeReaders(version)[2][x] = ReadNode(x, version)
  BY DEF HandshakeReaders, Reader, Cells
<1>2. HandshakeReaders(version) =
         <<Reader(ReadBool), HandshakeReaders(version)[2], Reader(ReadString), Reader(ReadCell)>>
  BY DEF HandshakeReaders
<1> QED
  BY <1>1, <1>2

\* Under any version the peer reads the response to its handshake to the end.
LEMMA HandshakeRead ==
    ASSUME IsConfiguration(metadata), NEW frame
    PROVE  PeerReadsHandshake(TransportHandshakeResponse(frame)) =
              Reads([node |-> DiscoveryNode, version |-> CURRENT], <<>>)
<1>1. PICK node, version : node = DiscoveryNode /\ version = frame.version
  OBVIOUS
<1>0. PICK flag \in BOOLEAN : flag
  OBVIOUS
<1>2. IsNode(node) /\ Told(node, version) = node
  BY <1>1, HostNode
<1>3. PICK chunks, values, readers :
         /\ chunks = <<WriteBool(flag), WriteNode(node, version), WriteString(<<>>), <<CURRENT>>>>
         /\ values = <<flag, node, <<>>, CURRENT>>
         /\ readers = HandshakeReaders(version)
  OBVIOUS
<1>4. AllFit(4, readers, chunks, values)
  <2>1. PICK second : /\ \A x \in Cells : second[x] = ReadNode(x, version)
                      /\ readers = <<Reader(ReadBool), second, Reader(ReadString), Reader(ReadCell)>>
    BY <1>3, HandshakeReadersAre
  <2>2. Fits(readers[1], chunks[1], values[1])
    BY <1>3, <2>1, BoolFits
  <2>3. Fits(readers[2], chunks[2], values[2])
    <3>1. Fits(second, WriteNode(node, version), Told(node, version))
      BY <1>2, <2>1, NodeFits
    <3> QED
      BY <1>2, <1>3, <2>1, <3>1
  <2>4. Fits(readers[3], chunks[3], values[3])
    <3>1. <<>> \in Strings
      <4>1. <<>> \in Seq(0..127)
        OBVIOUS
      <4> QED
        BY <4>1, Ascii
    <3> QED
      BY <1>3, <2>1, <3>1, StringFits
  <2>5. Fits(readers[4], chunks[4], values[4])
    <3>1. CURRENT \in Nat
      BY DEF CURRENT, FromReleaseId, CURRENT_RELEASE_ID, MASK
    <3> QED
      BY <1>3, <2>1, <3>1, CellFits
  <2> QED
    BY <1>3, <2>1, <2>2, <2>3, <2>4, <2>5 DEF AllFit
<1>5. PICK cells \in Cells : cells = FlattenSeq(chunks) /\ ReadFields(readers, cells) = Reads(values, <<>>)
  <2>1. PICK cells \in Cells : cells = FlattenSeq(chunks)
    BY <1>4, FieldsFit
  <2>2. ReadFields(readers, cells \o <<>>) = Reads(values, <<>>)
    <3>1. \A rest \in Cells : ReadFields(readers, cells \o rest) = Reads(values, rest)
      BY <1>4, <2>1, FieldsFit
    <3> QED
      BY <3>1, NoCells
  <2>3. cells \o <<>> = cells
    BY NoCells, Concat
  <2> QED
    BY <2>1, <2>2, <2>3
<1>6. PICK out : out = TransportHandshakeResponse(frame)
  OBVIOUS
<1>7. out.version = version /\ out.body = cells
  <2>1. WriteBool(flag) = WriteBool(TRUE)
    BY <1>0 DEF WriteBool
  <2> QED
    BY <1>1, <1>3, <1>5, <1>6, <2>1 DEF TransportHandshakeResponse
<1> DEFINE next(f, rest) == Reads([node |-> f[2], version |-> f[4]], rest)
<1>8. PeerReadsHandshake(out) = Then(ReadFields(HandshakeReaders(out.version), out.body), next)
  BY Zenon DEF PeerReadsHandshake
<1>9. next(values, <<>>) = Reads([node |-> node, version |-> CURRENT], <<>>)
  BY <1>3
<1>10. Then(Reads(values, <<>>), next) = next(values, <<>>)
  <2> HIDE DEF next
  <2> QED
    BY ReadsFields DEF Then
<1> HIDE DEF next
<1> QED
  BY <1>1, <1>3, <1>5, <1>6, <1>7, <1>8, <1>9, <1>10

LEMMA NodeLearnt == \A node, version : Reads([node |-> node, version |-> version], <<>>).value.node = node
<1> SUFFICES ASSUME NEW node, NEW version
             PROVE  Reads([node |-> node, version |-> version], <<>>).value.node = node
  OBVIOUS
<1>1. PICK both : both = [node |-> node, version |-> version]
  OBVIOUS
<1>2. Reads(both, <<>>).value = both /\ both.node = node
  BY <1>1, ReadsFields
<1> QED
  BY <1>1, <1>2

LEMMA InterfacesAreStrings ==
    /\ ACTION_EXTENSION \in Strings
    /\ \A list : ImplementedInterfaces(list) \in Seq(Strings)
<1>1. ACTION_EXTENSION \in Strings
  <2>1. ACTION_EXTENSION \in Seq(0..127)
    BY DEF ACTION_EXTENSION
  <2> QED
    BY <2>1, Ascii
<1>2. <<>> \in Seq(Strings) /\ <<ACTION_EXTENSION>> \in Seq(Strings)
  BY <1>1
<1> QED
  BY <1>1, <1>2 DEF ImplementedInterfaces

LEMMA NameIsString == NAME \in Strings
BY DEF NAME, Strings, IsUtf8, LeadBytes, TrailBytes

\* The peer reads the interfaces behind the name.
LEMMA InterfacesRead ==
    ASSUME interfaces \in Seq(Strings)
    PROVE  Then(ReadString(InitializeResponse.body), LAMBDA name, rest : ReadStringArray(rest)) =
              Reads(interfaces, <<>>)
<1>1. NAME \in Strings
  BY NameIsString
<1>2. PICK cells \in Cells : cells = WriteStringArray(interfaces) /\ ReadStringArray(cells) = Reads(interfaces, <<>>)
  <2>1. PICK cells \in Cells : cells = WriteStringArray(interfaces)
    BY StringArrayReads, NoCells
  <2>2. ReadStringArray(cells \o <<>>) = Reads(interfaces, <<>>)
    BY <2>1, StringArrayReads, NoCells
  <2>3. cells \o <<>> = cells
    BY NoCells, Concat
  <2> QED
    BY <2>1, <2>2, <2>3
<1>3. PICK body : body = InitializeResponse.body
  OBVIOUS
<1>4. body = WriteString(NAME) \o cells
  BY <1>2, <1>3 DEF InitializeResponse
<1>5. ReadString(body) = Reads(NAME, cells)
  BY <1>1, <1>4, StringReads
<1> DEFINE next(name, rest) == ReadStringArray(rest)
<1>6. next(NAME, cells) = Reads(interfaces, <<>>)
  BY <1>2
<1>7. Then(Reads(NAME, cells), next) = next(NAME, cells)
  <2> HIDE DEF next
  <2> QED
    BY ReadsFields DEF Then
<1>8. Then(ReadString(body), next) = Reads(interfaces, <<>>)
  <2> HIDE DEF next
  <2> QED
    BY <1>5, <1>6, <1>7
<1> QED
  BY <1>3, <1>8, Zenon

-----------------------------------------------------------------------------
(* Versions. *)

LowerOf(theirs, ours) == IF theirs < ours THEN theirs ELSE ours

LEMMA LowerIsBelow ==
    ASSUME NEW a \in Nat, NEW b \in Nat
    PROVE  LowerOf(a, b) \in {a, b} /\ LowerOf(a, b) <= a /\ LowerOf(a, b) <= b
<1>1. CASE a < b
  BY <1>1 DEF LowerOf
<1>2. CASE ~(a < b)
  BY <1>2 DEF LowerOf
<1> QED
  BY <1>1, <1>2

\* The version encodes a release, and gives it back.
LEMMA ReleaseEncoded ==
    ASSUME NEW id \in 0..(MASK - 1) PROVE ReleaseId(FromReleaseId(id)) = id
BY DEF ReleaseId, FromReleaseId, MASK

LEMMA KnownReleases ==
    ASSUME NEW theirs \in PeerReleases
    PROVE  /\ theirs \in 0..(MASK - 1) /\ CURRENT_RELEASE_ID \in 0..(MASK - 1)
           /\ LowerOf(CURRENT_RELEASE_ID, theirs) \in 0..(MASK - 1)
           /\ theirs \in Nat /\ CURRENT_RELEASE_ID \in Nat
BY ReleasesAssumption DEF MASK, CURRENT_RELEASE_ID, MIN_COMPAT_RELEASE_ID, LowerOf

-----------------------------------------------------------------------------
(* The invariant. *)

\* The version both sides go on under.
Agreed == FromReleaseId(LowerOf(CURRENT_RELEASE_ID, release))

\* The host's own version is in its answer to the first request; from the next
\* request on the channel has the lower one, and the host answers under it.
AgreementInv ==
    /\ release \in PeerReleases
    /\ stage = "tcp answered" => outbound.body = <<CURRENT>>
    /\ sent # <<>> \/ stage \in {"transport handshake", "transport answered"} =>
          channel = Agreed
    /\ stage = "transport handshake" => inbound.version = channel
    /\ stage = "transport answered" => outbound.version = channel

LEMMA InitAgreement == Init => AgreementInv
BY DEF Init, AgreementInv

LEMMA StartAgreement ==
    ASSUME AgreementInv, Configure \/ Bind \/ BindFails \/ PeerOpens PROVE AgreementInv'
<1>1. /\ stage' \in {"configured", "failed", "listening", "tcp handshake"}
      /\ UNCHANGED <<release, channel, sent>>
      /\ stage \notin {"transport handshake", "transport answered"}
  BY DEF Configure, Bind, BindFails, PeerOpens, server, peer
<1> QED
  BY <1>1 DEF AgreementInv, Agreed

LEMMA TcpHandshakeAgreement == ASSUME AgreementInv, HandleTcpHandshake PROVE AgreementInv'
<1>1. outbound'.body = <<CURRENT>>
  BY DEF HandleTcpHandshake, TcpHandshakeResponse
<1> QED
  BY <1>1 DEF AgreementInv, HandleTcpHandshake, Agreed, peer

LEMMA PeerAgreesAgreement == ASSUME AgreementInv, PeerAgrees PROVE AgreementInv'
<1>1. ReleaseId(outbound.body[1]) = CURRENT_RELEASE_ID
  <2>1. outbound.body[1] = FromReleaseId(CURRENT_RELEASE_ID)
    <3>1. outbound.body = <<CURRENT>>
      BY DEF AgreementInv, PeerAgrees
    <3> QED
      BY <3>1 DEF CURRENT
  <2>2. CURRENT_RELEASE_ID \in 0..(MASK - 1)
    BY DEF CURRENT_RELEASE_ID, MASK
  <2> QED
    BY <2>1, <2>2, ReleaseEncoded
<1>2. channel' = FromReleaseId(LowerOf(CURRENT_RELEASE_ID, release)) /\ release' = release
  BY <1>1 DEF PeerAgrees, LowerOf
<1>3. inbound'.version = channel' /\ stage' = "transport handshake"
  BY DEF PeerAgrees
<1> QED
  BY <1>2, <1>3 DEF AgreementInv, Agreed

LEMMA TransportHandshakeAgreement ==
    ASSUME AgreementInv, HandleTransportHandshake PROVE AgreementInv'
<1>1. outbound'.version = inbound.version
  BY DEF HandleTransportHandshake, TransportHandshakeResponse
<1> QED
  BY <1>1 DEF AgreementInv, HandleTransportHandshake, Agreed, peer

LEMMA PeerInitializesAgreement == ASSUME AgreementInv, PeerInitializes PROVE AgreementInv'
<1>1. /\ stage = "transport answered" /\ stage' = "initializing"
      /\ UNCHANGED <<release, channel>>
  BY DEF PeerInitializes
<1> QED
  BY <1>1 DEF AgreementInv, Agreed

\* From the init request on, release, channel and request stay.
LEMMA LaterAgreement ==
    ASSUME AgreementInv,
           \/ HandleInitializeExtension \/ PeerAcknowledges \/ HandleAcknowledgement
           \/ PeerSendsSettings \/ HandleSettings
    PROVE  AgreementInv'
<1>1. /\ UNCHANGED <<release, channel, sent>>
      /\ stage' \in {"registering", "failed", "acknowledging", "configuring", "refused",
                     "settled", "initialized"}
  BY DEF HandleInitializeExtension, PeerAcknowledges, HandleAcknowledgement,
         PeerSendsSettings, PeerAnswers, HandleSettings, peer
<1> QED
  BY <1>1 DEF AgreementInv, Agreed

LEMMA AgreementInvariant == Spec => []AgreementInv
<1>1. AgreementInv /\ [Next]_vars => AgreementInv'
  <2> SUFFICES ASSUME AgreementInv, [Next]_vars PROVE AgreementInv'
    OBVIOUS
  <2>1. CASE UNCHANGED vars
    BY <2>1 DEF vars, peer, AgreementInv, Agreed
  <2> QED
    BY <2>1, StartAgreement, TcpHandshakeAgreement, PeerAgreesAgreement,
       TransportHandshakeAgreement, PeerInitializesAgreement, LaterAgreement DEF Next
<1> QED
  BY InitAgreement, <1>1, PTL DEF Spec

-----------------------------------------------------------------------------
(* The invariant of the bodies. *)

\* The body is the init request, cut somewhere or not at all.
CutOf(body, init, version) ==
    \E n \in 0..Len(WriteInit(init, version)) : body = SubSeq(WriteInit(init, version), 1, n)

Connected == {"initializing", "registering", "acknowledging", "configuring", "settled", "initialized"}

\* What the host can say of itself, on what it listens, and for each body the
\* state it was written from.
BodiesInv ==
    /\ IsConfiguration(metadata)
    /\ stage \in {"starting", "configured", "failed"} \/ metadata.port = 0 \/ listening = <<metadata.port>>
    /\ sent = <<>> \/ stage \in Connected \cup {"failed", "refused"}
    /\ stage = "transport answered" => outbound = TransportHandshakeResponse(inbound)
    /\ stage = "initializing" =>
          /\ IsInit(sent[1]) /\ inbound = [version |-> channel, body |-> inbound.body]
          /\ CutOf(inbound.body, sent[1], channel)
    /\ stage = "failed" /\ read = <<>> /\ sent # <<>> => ~Whole
    /\ stage \in Connected \ {"initializing"} => read # <<>>
    /\ stage = "registering" =>
          IsInit(sent[1]) /\ Whole /\ read = <<ToldInit(sent[1], channel)>>
    /\ stage = "initialized" => outbound = InitializeResponse

LEMMA InitBodies == Init => BodiesInv
<1> SUFFICES ASSUME Init PROVE BodiesInv
  OBVIOUS
<1>1. IsConfiguration(metadata)
  BY DEF Init, IsConfiguration, LOCALHOST, DEFAULT_PORT
<1> QED
  BY <1>1 DEF Init, BodiesInv, Connected

LEMMA ConfigureBodies == ASSUME BodiesInv, Configure PROVE BodiesInv'
<1>1. sent = <<>> /\ sent' = <<>> /\ stage' \in {"configured", "failed"}
  BY DEF BodiesInv, Configure, Connected, peer
<1>2. IsConfiguration(metadata')
  <2>1. PICK host \in HostSettings, port \in PortSettings :
           IF Parses(host, port) THEN metadata' = Configured(host, port) ELSE UNCHANGED metadata
    BY DEF Configure
  <2>2. CASE ~Parses(host, port)
    BY <2>1, <2>2 DEF BodiesInv
  <2>3. CASE Parses(host, port)
    <3>1. host \in Seq(Seq(0..9)) /\ port \in Seq(Nat)
      BY SettingsAssumption
    <3>2. PICK octets : octets = (IF host = <<>> THEN LOCALHOST ELSE host[1])
      OBVIOUS
    <3>3. octets \in Seq(0..9) /\ Len(octets) \in {1, 2}
      <4>1. host = <<>> => octets \in Seq(0..9) /\ Len(octets) \in {1, 2}
        BY <3>2 DEF LOCALHOST
      <4>2. host # <<>> => host[1] \in Seq(0..9)
        BY <3>1
      <4>3. host # <<>> => Len(host[1]) \in {1, 2}
        BY <2>3 DEF Parses
      <4> QED
        BY <3>2, <4>1, <4>2, <4>3
    <3>4. PICK number : number = (IF port = <<>> THEN DEFAULT_PORT ELSE port[1])
      OBVIOUS
    <3>5. number \in Nat
      <4>1. port # <<>> => port[1] \in Nat
        BY <3>1
      <4> QED
        BY <3>4, <4>1 DEF DEFAULT_PORT
    <3>6. metadata' = [host_address |-> octets, port |-> number]
      BY <2>1, <2>3, <3>2, <3>4 DEF Configured
    <3> QED
      BY <3>3, <3>5, <3>6 DEF IsConfiguration
  <2> QED
    BY <2>2, <2>3
<1> QED
  BY <1>1, <1>2 DEF BodiesInv, Connected

\* The port that was asked for is the one that is listened on.
LEMMA BindBodies == ASSUME BodiesInv, Bind \/ BindFails PROVE BodiesInv'
<1>1. UNCHANGED <<metadata, sent>> /\ sent = <<>> /\ stage' \in {"listening", "failed"}
  BY DEF BodiesInv, Bind, BindFails, server, peer, Connected
<1>2. stage' = "failed" \/ metadata'.port = 0 \/ listening' = <<metadata'.port>>
  BY DEF Bind, BindFails
<1> QED
  BY <1>1, <1>2 DEF BodiesInv, Connected

LEMMA HandshakeBodies ==
    ASSUME BodiesInv,
           \/ PeerOpens \/ HandleTcpHandshake \/ PeerAgrees \/ HandleTransportHandshake
    PROVE  BodiesInv'
<1>1. /\ UNCHANGED <<metadata, listening, sent>>
      /\ stage \in {"listening", "tcp handshake", "tcp answered", "transport handshake"}
      /\ stage' \in {"tcp handshake", "tcp answered", "transport handshake", "transport answered"}
  BY DEF PeerOpens, HandleTcpHandshake, PeerAgrees, HandleTransportHandshake, server, peer
<1>2. sent = <<>>
  BY <1>1 DEF BodiesInv, Connected
<1>3. stage' = "transport answered" => outbound' = TransportHandshakeResponse(inbound)'
  <2>1. stage' = "transport answered" => inbound' = inbound /\ outbound' = TransportHandshakeResponse(inbound)
    BY DEF PeerOpens, HandleTcpHandshake, PeerAgrees, HandleTransportHandshake
  <2> QED
    BY <1>1, <2>1 DEF TransportHandshakeResponse, DiscoveryNode
<1> QED
  BY <1>1, <1>2, <1>3 DEF BodiesInv, Connected

LEMMA PeerInitializesBodies == ASSUME BodiesInv, PeerInitializes PROVE BodiesInv'
<1>1. PICK task, node, extension, header, init :
         /\ task \in Tasks /\ node \in PeerNodes /\ extension \in Extensions
         /\ header \in ServiceAccounts
         /\ init = [task |-> task, source_node |-> node, extension |-> extension,
                    service_account_header |-> header]
         /\ sent' = <<init>>
         /\ \E n \in 0..Len(WriteInit(init, channel)) :
               inbound' = [version |-> channel, body |-> SubSeq(WriteInit(init, channel), 1, n)]
  BY DEF PeerInitializes
<1>2. IsInit(init)
  <2>1. IsTask(task) /\ IsNode(node) /\ IsExtensionNode(extension)
    BY <1>1, PeersAssumption
  <2>2. header \in Strings
    BY <1>1, AccountsAssumption
  <2> QED
    BY <1>1, <2>1, <2>2 DEF IsInit
<1>3. /\ stage = "transport answered" /\ stage' = "initializing"
      /\ UNCHANGED <<metadata, listening, channel>>
  BY DEF PeerInitializes, server
<1>4. sent'[1] = init
  BY <1>1
<1>5. /\ inbound' = [version |-> channel, body |-> inbound'.body]
      /\ CutOf(inbound'.body, init, channel)
  BY <1>1 DEF CutOf
<1> QED
  BY <1>2, <1>3, <1>4, <1>5 DEF BodiesInv, Connected

\* The host reads the request or fails as the length decides.
LEMMA InitializeBodies == ASSUME BodiesInv, HandleInitializeExtension PROVE BodiesInv'
<1>1. /\ stage = "initializing"
      /\ UNCHANGED <<metadata, listening, channel, sent, inbound>>
  BY DEF HandleInitializeExtension, server, peer
<1>2. PICK init, version, body :
         /\ init = sent[1] /\ version = channel /\ body = inbound.body
         /\ IsInit(init) /\ CutOf(body, init, version)
         /\ inbound = [version |-> version, body |-> body]
  BY <1>1 DEF BodiesInv
<1>3. PICK n \in 0..Len(WriteInit(init, version)) : body = SubSeq(WriteInit(init, version), 1, n)
  BY <1>2 DEF CutOf
<1>4. IF body = WriteInit(init, version)
      THEN InitOf(body, version) = Reads(ToldInit(init, version), <<>>)
      ELSE InitOf(body, version).error # "none"
  BY <1>2, <1>3, InitCut
<1>5. PICK result : result = ReadInit(inbound)
  OBVIOUS
<1>6. result = InitOf(body, version)
  BY <1>2, <1>5 DEF InitOf
<1>7. Whole <=> body = WriteInit(init, version)
  BY <1>2 DEF Whole
<1>8. Whole' <=> Whole
  BY <1>1 DEF Whole
<1>9. CASE body = WriteInit(init, version)
  <2>1. result.error = "none" /\ result.value = ToldInit(init, version)
    BY <1>4, <1>6, <1>9, ReadsFields
  <2>2. stage' = "registering" /\ read' = <<ToldInit(init, version)>>
    BY <1>5, <2>1 DEF HandleInitializeExtension
  <2>3. read' = <<ToldInit(sent'[1], channel')>> /\ Whole' /\ read' # <<>> /\ IsInit(sent'[1])
    BY <1>1, <1>2, <1>7, <1>8, <1>9, <2>2
  <2> QED
    BY <1>1, <2>2, <2>3 DEF BodiesInv, Connected
<1>10. CASE body # WriteInit(init, version)
  <2>1. stage' = "failed"
    BY <1>4, <1>5, <1>6, <1>10 DEF HandleInitializeExtension
  <2> QED
    BY <1>1, <1>7, <1>8, <1>10, <2>1 DEF BodiesInv, Connected
<1> QED
  BY <1>9, <1>10

LEMMA LaterBodies ==
    ASSUME BodiesInv,
           PeerAcknowledges \/ HandleAcknowledgement \/ PeerSendsSettings \/ HandleSettings
    PROVE  BodiesInv'
<1>1. /\ UNCHANGED <<metadata, listening, sent, read>>
      /\ stage \in {"registering", "acknowledging", "configuring", "settled"}
      /\ stage' \in {"acknowledging", "configuring", "settled", "initialized", "failed", "refused"}
  BY DEF PeerAcknowledges, HandleAcknowledgement, PeerSendsSettings, PeerAnswers, HandleSettings,
         server, peer
<1>2. read' # <<>>
  BY <1>1 DEF BodiesInv, Connected
<1>3. stage' = "initialized" => outbound' = InitializeResponse'
  BY DEF PeerAcknowledges, HandleAcknowledgement, PeerSendsSettings, PeerAnswers, HandleSettings,
         server, InitializeResponse
<1> QED
  BY <1>1, <1>2, <1>3 DEF BodiesInv, Connected

LEMMA BodiesInvariant == Spec => []BodiesInv
<1>1. BodiesInv /\ [Next]_vars => BodiesInv'
  <2> SUFFICES ASSUME BodiesInv, [Next]_vars PROVE BodiesInv'
    OBVIOUS
  <2>1. CASE UNCHANGED vars
    <3>1. Whole' <=> Whole
      BY <2>1 DEF vars, peer, Whole
    <3>2. InitializeResponse' = InitializeResponse
      BY <2>1 DEF vars, server, InitializeResponse
    <3>3. \A frame : TransportHandshakeResponse(frame)' = TransportHandshakeResponse(frame)
      BY <2>1 DEF vars, server, TransportHandshakeResponse, DiscoveryNode
    <3> QED
      BY <2>1, <3>1, <3>2, <3>3 DEF vars, server, peer, BodiesInv
  <2> QED
    BY <2>1, ConfigureBodies, BindBodies, HandshakeBodies, PeerInitializesBodies,
       InitializeBodies, LaterBodies DEF Next
<1> QED
  BY InitBodies, <1>1, PTL DEF Spec

-----------------------------------------------------------------------------

\* Whatever release the peer has, from the transport handshake on both sides
\* use the newest version that both know, and the host answers under it.
THEOREM BothAgree == Spec => []VersionsAgree
<1>1. AgreementInv => VersionsAgree
  <2> SUFFICES ASSUME AgreementInv,
                      sent # <<>> \/ stage \in {"transport handshake", "transport answered"}
               PROVE  /\ ReleaseId(channel) \in {release, CURRENT_RELEASE_ID}
                      /\ ReleaseId(channel) <= release /\ ReleaseId(channel) <= CURRENT_RELEASE_ID
                      /\ stage = "transport answered" => outbound.version = channel
    BY DEF VersionsAgree
  <2>1. ReleaseId(channel) = LowerOf(CURRENT_RELEASE_ID, release)
    BY KnownReleases, ReleaseEncoded DEF AgreementInv, Agreed
  <2>2. release \in Nat /\ CURRENT_RELEASE_ID \in Nat
    <3>1. release \in PeerReleases
      BY DEF AgreementInv
    <3> QED
      BY <3>1, KnownReleases
  <2>3. stage = "transport answered" => outbound.version = channel
    BY DEF AgreementInv
  <2>4. /\ LowerOf(CURRENT_RELEASE_ID, release) \in {release, CURRENT_RELEASE_ID}
        /\ LowerOf(CURRENT_RELEASE_ID, release) <= release
        /\ LowerOf(CURRENT_RELEASE_ID, release) <= CURRENT_RELEASE_ID
    BY <2>2, LowerIsBelow
  <2> QED
    BY <2>1, <2>3, <2>4
<1> QED
  BY AgreementInvariant, <1>1, PTL

\* A peer of any release reads the response to its transport handshake to the
\* last cell, and learns the node of the host and its release.
THEOREM ResponseIsRead == Spec => []PeerReadsResponse
<1>1. BodiesInv => PeerReadsResponse
  BY HandshakeRead DEF BodiesInv, PeerReadsResponse
<1> QED
  BY <1>1, BodiesInvariant, PTL

\* The port in it is the one the host listens on, unless it was asked to be any,
\* and the address the configured one.
THEOREM ListensWhereAnnounced == Spec => []AnnouncesWhereItListens
<1>1. BodiesInv => AnnouncesWhereItListens
  <2> SUFFICES ASSUME BodiesInv, stage = "transport answered", metadata.port # 0
               PROVE  PeerReadsHandshake(outbound).value.node.address
                         = TransportAddress(metadata.host_address, listening[1])
    BY DEF AnnouncesWhereItListens
  <2>1. PeerReadsHandshake(outbound) = Reads([node |-> DiscoveryNode, version |-> CURRENT], <<>>)
    BY HandshakeRead DEF BodiesInv
  <2>2. PeerReadsHandshake(outbound).value.node = DiscoveryNode
    BY <2>1, NodeLearnt, Zenon
  <2>3. DiscoveryNode.address = TransportAddress(metadata.host_address, metadata.port)
    BY DEF DiscoveryNode
  <2>4. listening[1] = metadata.port
    <3>1. listening = <<metadata.port>>
      BY DEF BodiesInv
    <3> QED
      BY <3>1
  <2> QED
    BY <2>2, <2>3, <2>4
<1> QED
  BY <1>1, BodiesInvariant, PTL

\* Under whatever version a peer writes its init request, the host reads what
\* that version tells, and refuses a request that is cut anywhere.
THEOREM InitReadAsSent == Spec => []HostReadsInit
<1>1. BodiesInv => HostReadsInit
  <2> SUFFICES ASSUME BodiesInv, stage = "registering"
               PROVE  /\ read[1].source_node = Told(sent[1].source_node, channel)
                      /\ read[1].extension =
                            [sent[1].extension EXCEPT !.discovery_node = Told(@, channel)]
                      /\ read[1].service_account_header = sent[1].service_account_header
    BY DEF HostReadsInit, BodiesInv
  <2>1. read[1] = ToldInit(sent[1], channel) /\ IsExtensionNode(sent[1].extension)
    BY DEF BodiesInv, IsInit
  <2>2. ToldExtension(sent[1].extension, channel) =
           [sent[1].extension EXCEPT !.discovery_node = Told(@, channel)]
    <3>1. PICK extension, node, version, dependencies :
             /\ extension = sent[1].extension
             /\ extension = [discovery_node |-> node, minimum_compatible_version |-> version,
                             dependencies |-> dependencies]
      BY <2>1 DEF IsExtensionNode
    <3> QED
      BY <3>1 DEF ToldExtension
  <2> QED
    BY <2>1, <2>2 DEF ToldInit
<1> QED
  BY <1>1, BodiesInvariant, PTL

-----------------------------------------------------------------------------
(* The varints of the protobuf messages. *)

\* One step of Varint: the number, or its lowest group before those of the rest.
Groups(n, varint) == IF n < BASE THEN <<n>> ELSE <<BASE + (n % BASE)>> \o varint[n \div BASE]

\* Varint as far as n.
IsVarint(f, n) == f \in [0..n -> Cells] /\ \A k \in 0..n : f[k] = Groups(k, f)

\* A group less leaves a smaller number.
LEMMA Quarter ==
    ASSUME NEW n \in Nat
    PROVE  /\ n \div BASE \in Nat /\ n % BASE \in 0..(BASE - 1)
           /\ n = (n % BASE) + (BASE * (n \div BASE))
           /\ n >= BASE => n \div BASE < n
BY DEF BASE

\* There is one as far as any number.
LEMMA VarintExists == \A n \in Nat : \E f : IsVarint(f, n)
<1> DEFINE Good == {n \in Nat : \E f : IsVarint(f, n)}
<1>1. 0 \in Good
  <2> DEFINE f == [k \in 0..0 |-> <<0>>]
  <2>1. <<0>> \in Cells
    BY DEF Cells
  <2>2. f \in [0..0 -> Cells] /\ \A k \in 0..0 : f[k] = Groups(k, f)
    BY <2>1 DEF Groups, BASE
  <2>3. IsVarint(f, 0)
    BY <2>2 DEF IsVarint
  <2> QED
    BY <2>3
<1>2. ASSUME NEW n \in Nat, n \in Good PROVE n + 1 \in Good
  <2>1. PICK f : IsVarint(f, n)
    BY <1>2
  <2> DEFINE g == [k \in 0..(n + 1) |-> IF k = n + 1 THEN Groups(n + 1, f) ELSE f[k]]
  <2>2. Groups(n + 1, f) \in Cells
    <3>1. CASE n + 1 < BASE
      BY <3>1 DEF Groups, Cells
    <3>2. CASE ~(n + 1 < BASE)
      <4>1. PICK q \in 0..n, r \in Nat : q = (n + 1) \div BASE /\ r = BASE + ((n + 1) % BASE)
        BY <3>2, Quarter DEF BASE
      <4>2. PICK one \in Cells : one = <<r>>
        <5>1. <<r>> \in Cells
          BY DEF Cells
        <5> QED
          BY <5>1
      <4>3. PICK c \in Cells : c = f[q]
        BY <2>1, <4>1 DEF IsVarint
      <4> QED
        BY <3>2, <4>1, <4>2, <4>3, Concat DEF Groups
    <3> QED
      BY <3>1, <3>2
  <2>3. g \in [0..(n + 1) -> Cells]
    BY <2>1, <2>2 DEF IsVarint
  <2>4. ASSUME NEW k \in 0..(n + 1) PROVE g[k] = Groups(k, g)
    <3>1. Groups(k, g) = Groups(k, f)
      <4>1. CASE k < BASE
        BY <4>1 DEF Groups
      <4>2. CASE ~(k < BASE)
        <5>1. k \div BASE \in 0..n
          BY <4>2, Quarter DEF BASE
        <5>2. g[k \div BASE] = f[k \div BASE]
          BY <5>1
        <5> HIDE DEF g
        <5> QED
          BY <5>2 DEF Groups
      <4> QED
        BY <4>1, <4>2
    <3>2. CASE k = n + 1
      BY <3>1, <3>2
    <3>3. CASE k # n + 1
      <4>1. k \in 0..n
        BY <3>3
      <4> QED
        BY <2>1, <3>1, <3>3, <4>1 DEF IsVarint
    <3> QED
      BY <3>2, <3>3
  <2> HIDE DEF g
  <2>5. IsVarint(g, n + 1)
    BY <2>3, <2>4 DEF IsVarint
  <2> QED
    BY <2>5
<1> HIDE DEF Good
<1>3. \A n \in Nat : n \in Good
  BY <1>1, <1>2, Forever
<1> QED
  BY <1>3 DEF Good

\* Two of them agree as far as both go.
LEMMA VarintUnique ==
    ASSUME NEW n \in Nat, NEW m \in Nat, NEW f, NEW g, IsVarint(f, n), IsVarint(g, m)
    PROVE  \A k \in Nat : k <= n /\ k <= m => f[k] = g[k]
<1> DEFINE Wrong == {k \in Nat : k <= n /\ k <= m /\ f[k] # g[k]}
<1>1. SUFFICES ASSUME Wrong # {} PROVE FALSE
  OBVIOUS
<1>2. PICK k \in Wrong : \A l \in Wrong : k <= l
  <2>1. Wrong \subseteq Nat
    OBVIOUS
  <2> QED
    BY <1>1, <2>1, Least
<1>3. k \in Nat /\ k <= n /\ k <= m /\ f[k] # g[k]
  OBVIOUS
<1>4. f[k] = Groups(k, f) /\ g[k] = Groups(k, g)
  BY <1>3 DEF IsVarint
<1>5. CASE k < BASE
  BY <1>3, <1>4, <1>5 DEF Groups
<1>6. CASE ~(k < BASE)
  <2>1. PICK q \in Nat : q = k \div BASE /\ q < k
    BY <1>3, <1>6, Quarter DEF BASE
  <2>2. q \notin Wrong
    BY <1>2, <1>3, <2>1
  <2>3. f[q] = g[q]
    BY <1>3, <2>1, <2>2
  <2> HIDE DEF Wrong
  <2> QED
    BY <1>3, <1>4, <1>6, <2>1, <2>3 DEF Groups
<1> QED
  BY <1>5, <1>6

\* A number is one group, or its lowest group before those of the rest.
LEMMA VarintIs == \A n \in Nat : Varint[n] \in Cells /\ Varint[n] = Groups(n, Varint)
<1> DEFINE Step(f) == [n \in Nat |-> Groups(n, f)]
           upto(n) == CHOOSE f : IsVarint(f, n)
           e == [n \in Nat |-> upto(n)[n]]
<1>1. \A n \in Nat : IsVarint(upto(n), n)
  BY VarintExists, Zenon
<1> HIDE DEF upto
<1>2. ASSUME NEW n \in Nat PROVE e[n] \in Cells /\ e[n] = Groups(n, e)
  <2>1. e[n] = upto(n)[n] /\ upto(n)[n] \in Cells /\ upto(n)[n] = Groups(n, upto(n))
    BY <1>1 DEF IsVarint
  <2>2. CASE n < BASE
    BY <2>1, <2>2 DEF Groups
  <2>3. CASE ~(n < BASE)
    <3>1. PICK q \in Nat : q = n \div BASE /\ q <= n
      BY <2>3, Quarter DEF BASE
    <3>2. upto(n)[q] = upto(q)[q]
      BY <1>1, <3>1, VarintUnique
    <3>3. upto(n)[q] = e[q]
      BY <3>2
    <3> HIDE DEF e
    <3>4. Groups(n, upto(n)) = Groups(n, e)
      BY <3>1, <3>3 DEF Groups
    <3> QED
      BY <2>1, <3>4
  <2> QED
    BY <2>2, <2>3
<1>3. e = Step(e)
  <2>1. \A n \in Nat : e[n] = Groups(n, e)
    BY <1>2
  <2> QED
    BY <2>1
<1> HIDE DEF e
<1>4. Varint = Step(Varint)
  <2>1. Varint = CHOOSE f : f = Step(f)
    BY Zenon DEF Varint, Groups
  <2> QED
    BY <1>3, <2>1, Zenon
<1>5. \A n \in Nat : Varint[n] = Groups(n, Varint)
  BY <1>4
<1> HIDE DEF Step
<1>6. \A n \in Nat : Varint[n] = e[n]
  <2> DEFINE Wrong == {n \in Nat : Varint[n] # e[n]}
  <2>1. SUFFICES ASSUME Wrong # {} PROVE FALSE
    OBVIOUS
  <2>2. PICK n \in Wrong : \A l \in Wrong : n <= l
    <3>1. Wrong \subseteq Nat
      OBVIOUS
    <3> QED
      BY <2>1, <3>1, Least
  <2>3. n \in Nat /\ Varint[n] = Groups(n, Varint) /\ e[n] = Groups(n, e)
    BY <1>2, <1>5
  <2>4. CASE n < BASE
    BY <2>3, <2>4 DEF Groups
  <2>5. CASE ~(n < BASE)
    <3>1. PICK q \in Nat : q = n \div BASE /\ q < n
      BY <2>3, <2>5, Quarter DEF BASE
    <3>2. q \notin Wrong
      BY <2>2, <2>3, <3>1
    <3>3. Varint[q] = e[q]
      BY <3>1, <3>2
    <3> QED
      BY <2>3, <3>1, <3>3 DEF Groups
  <2> QED
    BY <2>4, <2>5
<1> QED
  BY <1>2, <1>5, <1>6

\* The number that the last groups of v make up.
IsNumber(e, v, len) ==
    e[0] = 0 /\ \A i \in 0..(len - 1) : e[i + 1] = (v[len - i] % BASE) + (BASE * e[i])

\* The groups of n, all but the last of them marked.
IsNumeral(v, n) ==
    /\ v \in Cells /\ Len(v) >= 1 /\ v[Len(v)] < BASE
    /\ \A i \in 1..(Len(v) - 1) : v[i] >= BASE
    /\ \E e : IsNumber(e, v, Len(v)) /\ e[Len(v)] = n

\* A group more in front.
LEMMA GroupBefore ==
    ASSUME NEW n \in Nat, n >= BASE, NEW v, IsNumeral(v, n \div BASE)
    PROVE  IsNumeral(<<BASE + (n % BASE)>> \o v, n)
<1>1. PICK len \in Nat : len = Len(v) /\ v \in Cells
  BY DEF IsNumeral, Cells
<1>2. PICK r \in 0..(BASE - 1), q \in Nat : r = n % BASE /\ q = n \div BASE /\ n = r + (BASE * q)
  BY Quarter
<1>3. PICK w : w = <<BASE + r>> \o v
  OBVIOUS
<1>4. /\ w \in Cells /\ Len(w) = len + 1 /\ w[1] = BASE + r
      /\ \A i \in 1..len : w[i + 1] = v[i]
  <2>1. BASE + r \in Nat
    BY DEF BASE
  <2> QED
    BY <1>1, <1>3, <2>1 DEF Cells
<1>5. PICK e : IsNumber(e, v, len) /\ e[len] = q
  BY <1>1, <1>2 DEF IsNumeral
<1> DEFINE f == [i \in 0..(len + 1) |-> IF i = len + 1 THEN n ELSE e[i]]
<1>6. f[0] = 0 /\ f[len + 1] = n /\ \A i \in 0..len : f[i] = e[i]
  BY <1>5 DEF IsNumber
<1> HIDE DEF f
<1>7. ASSUME NEW i \in 0..((len + 1) - 1)
      PROVE  f[i + 1] = (w[(len + 1) - i] % BASE) + (BASE * f[i])
  <2>1. CASE i = len
    <3>1. (BASE + r) % BASE = r
      BY DEF BASE
    <3>2. f[i + 1] = n /\ w[(len + 1) - i] = BASE + r /\ f[i] = q
      BY <1>4, <1>5, <1>6, <2>1
    <3> QED
      BY <1>2, <3>1, <3>2
  <2>2. CASE i # len
    <3>1. i \in 0..(len - 1) /\ i + 1 \in 0..len /\ len - i \in 1..len /\ (len - i) + 1 = (len + 1) - i
      BY <2>2
    <3>2. w[(len + 1) - i] = v[len - i]
      BY <1>4, <3>1
    <3>3. e[i + 1] = (v[len - i] % BASE) + (BASE * e[i])
      BY <1>5, <3>1 DEF IsNumber
    <3> QED
      BY <1>6, <3>1, <3>2, <3>3
  <2> QED
    BY <2>1, <2>2
<1>8. IsNumber(f, w, len + 1)
  BY <1>6, <1>7 DEF IsNumber
<1>9. w[len + 1] < BASE /\ len >= 1
  BY <1>1, <1>4 DEF IsNumeral
<1>10. ASSUME NEW i \in 1..((len + 1) - 1) PROVE w[i] >= BASE
  <2>1. CASE i = 1
    BY <1>4, <2>1 DEF BASE
  <2>2. CASE i # 1
    <3>1. i - 1 \in 1..(len - 1) /\ (i - 1) + 1 = i /\ i - 1 \in 1..len
      BY <2>2
    <3> QED
      BY <1>1, <1>4, <3>1 DEF IsNumeral
  <2> QED
    BY <2>1, <2>2
<1>11. IsNumeral(w, n)
  BY <1>1, <1>4, <1>6, <1>8, <1>9, <1>10 DEF IsNumeral
<1> QED
  BY <1>2, <1>3, <1>11

\* Every number is written in such groups.
LEMMA VarintNumeral == \A n \in Nat : IsNumeral(Varint[n], n)
<1> DEFINE Wrong == {n \in Nat : ~IsNumeral(Varint[n], n)}
<1>1. SUFFICES ASSUME Wrong # {} PROVE FALSE
  OBVIOUS
<1>2. PICK n \in Wrong : \A l \in Wrong : n <= l
  <2>1. Wrong \subseteq Nat
    OBVIOUS
  <2> QED
    BY <1>1, <2>1, Least
<1>3. n \in Nat /\ ~IsNumeral(Varint[n], n) /\ Varint[n] = Groups(n, Varint)
  BY VarintIs
<1>4. CASE n < BASE
  <2>1. PICK v \in Cells : v = <<n>> /\ Len(v) = 1 /\ v[1] = n
    <3>1. <<n>> \in Cells
      BY <1>3 DEF Cells
    <3> QED
      BY <3>1
  <2> DEFINE e == [i \in 0..1 |-> IF i = 0 THEN 0 ELSE n]
  <2>2. e[0] = 0 /\ e[1] = n
    OBVIOUS
  <2> HIDE DEF e
  <2>3. IsNumber(e, v, 1)
    <3>1. e[1] = (v[1] % BASE) + (BASE * e[0])
      BY <1>3, <1>4, <2>1, <2>2 DEF BASE
    <3>2. 0..(1 - 1) = {0} /\ 0 + 1 = 1 /\ 1 - 0 = 1
      OBVIOUS
    <3> QED
      BY <2>2, <3>1, <3>2 DEF IsNumber
  <2>4. 1..(1 - 1) = {}
    OBVIOUS
  <2>5. IsNumeral(v, n)
    BY <1>4, <2>1, <2>2, <2>3, <2>4 DEF IsNumeral
  <2> QED
    BY <1>3, <1>4, <2>1, <2>5 DEF Groups
<1>5. CASE ~(n < BASE)
  <2>1. PICK q \in Nat : q = n \div BASE /\ q < n /\ n >= BASE
    BY <1>3, <1>5, Quarter DEF BASE
  <2>2. q \notin Wrong
    BY <1>2, <1>3, <2>1
  <2>3. IsNumeral(Varint[q], q)
    BY <2>1, <2>2
  <2>4. IsNumeral(<<BASE + (n % BASE)>> \o Varint[q], n)
    BY <1>3, <2>1, <2>3, GroupBefore
  <2> QED
    BY <1>3, <1>5, <2>1, <2>4 DEF Groups
<1> QED
  BY <1>4, <1>5

\* A number is read back, whatever follows.
LEMMA VarintReads ==
    ASSUME NEW n \in Nat, NEW rest \in Cells
    PROVE  ReadVarint(Varint[n] \o rest) = Reads(n, rest) /\ Varint[n] \in Cells /\ Len(Varint[n]) >= 1
<1>1. PICK v \in Cells : v = Varint[n] /\ IsNumeral(v, n)
  BY VarintIs, VarintNumeral
<1>2. PICK len \in Nat : len = Len(v) /\ len >= 1
  BY <1>1 DEF IsNumeral, Cells
<1>3. PICK input \in Cells :
         /\ input = v \o rest /\ Len(input) = len + Len(rest)
         /\ \A i \in 1..len : i \in DOMAIN input /\ input[i] = v[i]
  <2>1. PICK input \in Cells : input = v \o rest
    BY Concat
  <2>2. Len(input) = len + Len(rest) /\ \A i \in 1..len : input[i] = v[i]
    BY <1>2, <2>1, ConcatCells
  <2>3. DOMAIN input = 1..Len(input) /\ Len(rest) \in Nat
    BY DEF Cells
  <2>4. \A i \in 1..len : i \in DOMAIN input
    BY <2>2, <2>3
  <2> QED
    BY <2>1, <2>2, <2>4
<1> DEFINE ends == {i \in DOMAIN input : input[i] < BASE}
<1>4. Min(ends) = len
  <2>1. len \in ends
    BY <1>1, <1>2, <1>3 DEF IsNumeral
  <2>2. ASSUME NEW i \in ends PROVE len <= i
    <3>1. i \in Nat /\ i >= 1
      BY DEF Cells
    <3>2. ~(i \in 1..(len - 1))
      <4>1. SUFFICES ASSUME i \in 1..(len - 1) PROVE FALSE
        OBVIOUS
      <4>2. i \in 1..len /\ v[i] >= BASE /\ v[i] \in Nat
        <5>1. i \in 1..len /\ v[i] >= BASE
          BY <1>1, <1>2, <4>1 DEF IsNumeral
        <5>2. v[i] \in Nat
          BY <1>2, <5>1 DEF Cells
        <5> QED
          BY <5>1, <5>2
      <4> QED
        BY <1>3, <4>2 DEF BASE
    <3> QED
      BY <1>2, <3>1, <3>2
  <2>3. ends \subseteq Nat
    BY DEF Cells
  <2> HIDE DEF ends
  <2>4. \A m \in ends : (\A i \in ends : m <= i) => m = len
    BY <2>1, <2>2, <2>3
  <2> QED
    BY <2>1, <2>2, <2>4 DEF Min
<1>5. PICK e : IsNumber(e, v, len) /\ e[len] = n
  BY <1>1, <1>2 DEF IsNumeral
<1> DEFINE Step(f) == [i \in 0..len |->
                          IF i = 0 THEN 0 ELSE (input[len + 1 - i] % BASE) + (BASE * f[i - 1])]
           number == CHOOSE f : f = Step(f)
           g == [i \in 0..len |-> e[i]]
<1>6. g = Step(g)
  <2>1. ASSUME NEW i \in 0..len PROVE g[i] = Step(g)[i]
    <3>1. CASE i = 0
      BY <1>5, <3>1 DEF IsNumber
    <3>2. CASE i # 0
      <4>1. /\ i - 1 \in 0..(len - 1) /\ (i - 1) + 1 = i /\ i - 1 \in 0..len
            /\ len - (i - 1) = len + 1 - i /\ len + 1 - i \in 1..len
        BY <3>2
      <4>2. e[i] = (v[len + 1 - i] % BASE) + (BASE * e[i - 1])
        BY <1>5, <4>1 DEF IsNumber
      <4>3. g[i] = e[i] /\ g[i - 1] = e[i - 1] /\ input[len + 1 - i] = v[len + 1 - i]
        BY <1>3, <4>1
      <4> QED
        BY <3>2, <4>2, <4>3
    <3> QED
      BY <3>1, <3>2
  <2> QED
    BY <2>1
<1>7. number = Step(number)
  BY <1>6
<1>8. ReadVarint(input) = Reads(number[len], SubSeq(input, len + 1, Len(input)))
  <2>1. ends # {}
    BY <1>1, <1>2, <1>3 DEF IsNumeral
  <2> QED
    BY <1>4, <2>1 DEF ReadVarint
<1> HIDE DEF number
<1>9. number[len] = e[len]
  <2>1. number[0] = e[0]
    BY <1>5, <1>7 DEF IsNumber
  <2>2. ASSUME NEW i \in 0..(len - 1), number[i] = e[i] PROVE number[i + 1] = e[i + 1]
    <3>1. i + 1 \in 0..len /\ i + 1 # 0 /\ (i + 1) - 1 = i /\ len + 1 - (i + 1) = len - i
          /\ len - i \in 1..len
      OBVIOUS
    <3>2. number[i + 1] = (input[len - i] % BASE) + (BASE * number[i])
      BY <1>7, <3>1
    <3>3. e[i + 1] = (v[len - i] % BASE) + (BASE * e[i]) /\ input[len - i] = v[len - i]
      BY <1>3, <1>5, <3>1 DEF IsNumber
    <3> QED
      BY <2>2, <3>2, <3>3
  <2> QED
    BY <2>1, <2>2, Alike
<1>10. SubSeq(input, len + 1, Len(input)) = rest
  BY <1>2, <1>3 DEF Cells
<1> QED
  BY <1>1, <1>2, <1>3, <1>5, <1>8, <1>9, <1>10

-----------------------------------------------------------------------------
(* Fields of a message. *)

\* The chunk is read as the field, whatever follows it.
ReadsField(chunk, field) ==
    /\ chunk \in Cells /\ Len(chunk) >= 1
    /\ \A s, rest \in Cells : Parts(s, chunk, rest) => ReadField(s) = Reads(field, rest)

\* What the parser makes of a key and a number.
AfterNumbers(key, n, rest) ==
    CASE (key % 8) = VARINT -> Reads([tag |-> key \div 8, value |-> <<n>>], rest)
      [] (key % 8) = LENGTH_DELIMITED /\ n <= Len(rest) ->
            Reads([tag |-> key \div 8, value |-> SubSeq(rest, 1, n)],
                  SubSeq(rest, n + 1, Len(rest)))
      [] OTHER -> Fails("data")

\* ReadField goes on from the two numbers in front.
LEMMA FieldAfterNumbers ==
    ASSUME NEW input, NEW key, NEW left, NEW n, NEW rest,
           ReadVarint(input) = Reads(key, left), ReadVarint(left) = Reads(n, rest)
    PROVE  ReadField(input) = AfterNumbers(key, n, rest)
<1>1. ReadField(input) =
         Then(Reads(key, left), LAMBDA k, r1 : Then(ReadVarint(r1), LAMBDA m, r2 : AfterNumbers(k, m, r2)))
  BY DEF ReadField, AfterNumbers
<1> QED
  BY <1>1, ReadsFields DEF Then

\* A field is a key, a number and the bytes behind them.
IsField(chunk, key, n, value) ==
    \E c \in Cells : Parts(chunk, Varint[key], c) /\ Parts(c, Varint[n], value)

\* Such a field takes at least one cell, so a message has no more fields than cells.
LEMMA FieldHasCells ==
    ASSUME NEW key \in Nat, NEW n \in Nat, NEW value \in Cells, NEW chunk,
           IsField(chunk, key, n, value)
    PROVE  chunk \in Cells /\ Len(chunk) >= 1
<1>1. PICK a \in Cells : a = Varint[key] /\ Len(a) >= 1
  BY VarintReads, NoCells
<1>2. PICK c \in Cells : Parts(chunk, a, c)
  BY <1>1 DEF IsField
<1>3. chunk \in Cells /\ Len(chunk) = Len(a) + Len(c) /\ Len(a) \in Nat /\ Len(c) \in Nat
  BY <1>2, Concat DEF Parts, Cells
<1> QED
  BY <1>1, <1>3

\* The parser comes to what follows the key and the number.
LEMMA FieldRead ==
    ASSUME NEW key \in Nat, NEW n \in Nat, NEW value \in Cells, NEW chunk \in Cells,
           IsField(chunk, key, n, value), NEW s \in Cells, NEW rest \in Cells, Parts(s, chunk, rest)
    PROVE  \E w \in Cells : Parts(w, value, rest) /\ ReadField(s) = AfterNumbers(key, n, w)
<1>1. PICK a \in Cells, b \in Cells : a = Varint[key] /\ b = Varint[n]
  BY VarintIs
<1>2. PICK c \in Cells : Parts(chunk, a, c) /\ Parts(c, b, value)
  BY <1>1 DEF IsField
<1>3. PICK left \in Cells : Parts(left, c, rest) /\ Parts(s, a, left)
  BY <1>2, PartsRegroup
<1>4. PICK w \in Cells : Parts(w, value, rest) /\ Parts(left, b, w)
  BY <1>2, <1>3, PartsRegroup
<1>5. ReadVarint(s) = Reads(key, left) /\ ReadVarint(left) = Reads(n, w)
  BY <1>1, <1>3, <1>4, VarintReads DEF Parts
<1>6. ReadField(s) = AfterNumbers(key, n, w)
  BY <1>5, FieldAfterNumbers
<1> QED
  BY <1>4, <1>6

\* Keys of tags.
LEMMA KeyParts ==
    ASSUME NEW tag \in Nat, NEW wire_type \in {VARINT, LENGTH_DELIMITED}
    PROVE  /\ 8 * tag + wire_type \in Nat
           /\ (8 * tag + wire_type) % 8 = wire_type
           /\ (8 * tag + wire_type) \div 8 = tag
BY DEF VARINT, LENGTH_DELIMITED

\* A number in a field is read back.
LEMMA NumberField ==
    ASSUME NEW tag \in Nat, NEW n \in Nat
    PROVE  ReadsField(Field(tag, VARINT, Varint[n]), [tag |-> tag, value |-> <<n>>])
<1>1. PICK key \in Nat : key = 8 * tag + VARINT /\ key % 8 = VARINT /\ key \div 8 = tag
  BY KeyParts
<1>2. PICK chunk : chunk = Field(tag, VARINT, Varint[n])
  OBVIOUS
<1>3. IsField(chunk, key, n, <<>>)
  <2>1. PICK b \in Cells : b = Varint[n]
    BY VarintIs
  <2>2. Parts(b, b, <<>>)
    BY Concat DEF Parts
  <2>3. Parts(chunk, Varint[key], b)
    BY <1>1, <1>2, <2>1 DEF Field, Parts
  <2> QED
    BY <2>1, <2>2, <2>3 DEF IsField
<1>4. chunk \in Cells /\ Len(chunk) >= 1
  BY <1>3, FieldHasCells, NoCells
<1>5. ASSUME NEW s \in Cells, NEW rest \in Cells, Parts(s, chunk, rest)
      PROVE  ReadField(s) = Reads([tag |-> tag, value |-> <<n>>], rest)
  <2>1. PICK w \in Cells : Parts(w, <<>>, rest) /\ ReadField(s) = AfterNumbers(key, n, w)
    BY <1>3, <1>4, <1>5, FieldRead, NoCells
  <2>2. w = rest
    BY <2>1, Concat DEF Parts
  <2>3. key % 8 # LENGTH_DELIMITED
    BY <1>1 DEF VARINT, LENGTH_DELIMITED
  <2>4. AfterNumbers(key, n, w) = Reads([tag |-> tag, value |-> <<n>>], w)
    BY <1>1, <2>3, Zenon DEF AfterNumbers
  <2> QED
    BY <2>1, <2>2, <2>4
<1> QED
  BY <1>2, <1>4, <1>5 DEF ReadsField

\* Bytes in a field are read back.
LEMMA BytesField ==
    ASSUME NEW tag \in Nat, NEW value \in Cells
    PROVE  ReadsField(Field(tag, LENGTH_DELIMITED, LengthDelimited(value)), [tag |-> tag, value |-> value])
<1>1. PICK key \in Nat : key = 8 * tag + LENGTH_DELIMITED /\ key % 8 = LENGTH_DELIMITED /\ key \div 8 = tag
  BY KeyParts
<1>2. PICK chunk : chunk = Field(tag, LENGTH_DELIMITED, LengthDelimited(value))
  OBVIOUS
<1>3. PICK n \in Nat : n = Len(value)
  BY DEF Cells
<1>4. IsField(chunk, key, n, value)
  <2>1. PICK b \in Cells : b = Varint[n]
    BY VarintIs
  <2>2. PICK c \in Cells : Parts(c, b, value)
    BY Concat DEF Parts
  <2>3. Parts(chunk, Varint[key], c)
    BY <1>1, <1>2, <1>3, <2>1, <2>2 DEF Field, LengthDelimited, Parts
  <2> QED
    BY <2>1, <2>2, <2>3 DEF IsField
<1>5. chunk \in Cells /\ Len(chunk) >= 1
  BY <1>4, FieldHasCells
<1>6. ASSUME NEW s \in Cells, NEW rest \in Cells, Parts(s, chunk, rest)
      PROVE  ReadField(s) = Reads([tag |-> tag, value |-> value], rest)
  <2>1. PICK w \in Cells : Parts(w, value, rest) /\ ReadField(s) = AfterNumbers(key, n, w)
    BY <1>4, <1>5, <1>6, FieldRead
  <2>2. SubSeq(w, 1, n) = value /\ SubSeq(w, n + 1, Len(w)) = rest /\ n <= Len(w)
    BY <1>3, <2>1 DEF Cells, Parts
  <2>3. key % 8 # VARINT
    BY <1>1 DEF VARINT, LENGTH_DELIMITED
  <2>4. AfterNumbers(key, n, w) = Reads([tag |-> tag, value |-> value], rest)
    BY <1>1, <2>2, <2>3, Zenon DEF AfterNumbers
  <2> QED
    BY <2>1, <2>4
<1> QED
  BY <1>2, <1>5, <1>6 DEF ReadsField

-----------------------------------------------------------------------------
(* Messages. *)

\* Fields that are read one by one make the message.
LEMMA FieldsOfMessage ==
    ASSUME NEW n \in Nat, NEW chunks, NEW S, NEW fields \in Seq(S), Len(fields) = n,
           \A i \in 1..n : ReadsField(chunks[i], fields[i]),
           NEW left, IsRest(left, chunks, n, <<>>)
    PROVE  ReadMessage(left[0]) = Reads(fields, <<>>)
<1>1. left \in [0..n -> Cells] /\ left[n] = <<>> /\ left[0] \in Cells
  BY DEF IsRest
<1>2. ASSUME NEW i \in 0..(n - 1)
      PROVE  /\ left[i] \in Cells /\ left[i + 1] \in Cells
             /\ Parts(left[i], chunks[i + 1], left[i + 1])
             /\ ReadField(left[i]) = Reads(fields[i + 1], left[i + 1])
             /\ Len(left[i]) >= 1 + Len(left[i + 1])
  <2>1. i + 1 \in 1..n /\ i \in 0..n /\ i + 1 \in 0..n
    OBVIOUS
  <2>2. PICK s \in Cells, chunk \in Cells, rest \in Cells :
           s = left[i] /\ chunk = chunks[i + 1] /\ rest = left[i + 1]
    BY <1>1, <2>1 DEF ReadsField
  <2>3. Parts(s, chunk, rest)
    BY <2>2 DEF IsRest, Parts
  <2>4. ReadField(s) = Reads(fields[i + 1], rest) /\ Len(chunk) >= 1
    BY <2>1, <2>2, <2>3 DEF ReadsField
  <2>5. Len(s) = Len(chunk) + Len(rest) /\ Len(chunk) \in Nat /\ Len(rest) \in Nat
    BY <2>3, Concat DEF Parts, Cells
  <2> QED
    BY <2>2, <2>3, <2>4, <2>5
<1>3. PICK len \in Nat : len = Len(left[0]) /\ n <= len
  <2>1. PICK len \in Nat : len = Len(left[0])
    BY <1>1 DEF Cells
  <2> DEFINE Good == {i \in 0..n : i + Len(left[i]) <= len}
  <2>2. 0 \in Good
    BY <2>1
  <2>3. ASSUME NEW i \in 0..(n - 1), i \in Good PROVE i + 1 \in Good
    <3>1. PICK a \in Nat, b \in Nat : a = Len(left[i]) /\ b = Len(left[i + 1]) /\ a >= 1 + b
      BY <1>2 DEF Cells
    <3> QED
      BY <2>3, <3>1
  <2> HIDE DEF Good
  <2>4. n \in Good
    BY <2>2, <2>3, UpTo
  <2>5. Len(left[n]) = 0
    BY <1>1
  <2> QED
    BY <2>1, <2>4, <2>5 DEF Good
<1> DEFINE e == [i \in 0..len |-> IF i <= n THEN Reads(SubSeq(fields, 1, i), left[i])
                                  ELSE Reads(fields, <<>>)]
<1>4. e[0] = Reads(<<>>, left[0]) /\ e[len] = Reads(fields, <<>>)
  BY <1>1, <1>3, FirstItems
<1>5. ASSUME NEW i \in 0..(len - 1) PROVE NextField(e[i]) = e[i + 1]
  <2>1. CASE i < n
    <3>1. i \in 0..(n - 1) /\ i + 1 <= n /\ i \in 0..len /\ i + 1 \in 0..len /\ i <= n
      BY <1>3, <2>1
    <3>2. PICK some : some = SubSeq(fields, 1, i)
      OBVIOUS
    <3>3. e[i] = Reads(some, left[i])
      BY <3>1, <3>2
    <3>4. e[i + 1] = Reads(Append(some, fields[i + 1]), left[i + 1])
      BY <3>1, <3>2, FirstItems
    <3> HIDE DEF e
    <3>5. left[i] # <<>>
      <4>1. Len(left[i]) >= 1 + Len(left[i + 1]) /\ Len(left[i + 1]) \in Nat
        BY <1>2, <3>1 DEF Cells
      <4> QED
        BY <4>1
    <3>6. ReadField(left[i]) = Reads(fields[i + 1], left[i + 1])
      BY <1>2, <3>1
    <3> QED
      BY <3>3, <3>4, <3>5, <3>6, ReadsFields DEF NextField, Then
  <2>2. CASE ~(i < n)
    <3>1. e[i] = Reads(fields, <<>>) /\ e[i + 1] = Reads(fields, <<>>)
      <4>1. i \in 0..len /\ i + 1 \in 0..len /\ ~(i + 1 <= n)
        BY <1>3, <2>2
      <4>2. i <= n => i = n
        BY <2>2
      <4> QED
        BY <1>1, <4>1, <4>2, FirstItems
    <3> HIDE DEF e
    <3> QED
      BY <3>1, ReadsFields DEF NextField, Then
  <2> QED
    BY <2>1, <2>2
<1> DEFINE Step(f) == [i \in 0..len |-> IF i = 0 THEN Reads(<<>>, left[0]) ELSE NextField(f[i - 1])]
           so_far == CHOOSE f : f = Step(f)
<1>6. e = Step(e)
  <2>1. ASSUME NEW i \in 0..len PROVE e[i] = Step(e)[i]
    <3>1. CASE i = 0
      BY <1>4, <3>1
    <3>2. CASE i # 0
      <4>1. i - 1 \in 0..(len - 1) /\ (i - 1) + 1 = i
        BY <3>2
      <4> HIDE DEF e
      <4> QED
        BY <1>5, <3>2, <4>1
    <3> QED
      BY <3>1, <3>2
  <2>2. e = [i \in 0..len |-> e[i]]
    OBVIOUS
  <2> HIDE DEF e
  <2> QED
    BY <2>1, <2>2
<1> HIDE DEF e
<1>7. so_far = Step(so_far)
  BY <1>6
<1>8. ReadMessage(left[0]) = so_far[len]
  BY <1>3 DEF ReadMessage
<1> HIDE DEF so_far
<1>9. so_far[len] = e[len]
  <2>1. so_far[0] = e[0]
    BY <1>4, <1>7
  <2>2. ASSUME NEW i \in 0..(len - 1), so_far[i] = e[i] PROVE so_far[i + 1] = e[i + 1]
    <3>1. i + 1 \in 0..len /\ i + 1 # 0 /\ (i + 1) - 1 = i
      OBVIOUS
    <3>2. so_far[i + 1] = NextField(so_far[i])
      BY <1>7, <3>1
    <3> QED
      BY <1>5, <2>2, <3>2
  <2> QED
    BY <2>1, <2>2, Alike
<1> QED
  BY <1>4, <1>8, <1>9

\* The chunks are read as the fields, one by one.
ReadAs(chunks, fields, n) ==
    /\ chunks \in Seq(Cells) /\ Len(chunks) = n
    /\ \A i \in 1..n : ReadsField(chunks[i], fields[i])

\* One field in front of a list of them.
LEMMA MessageReads ==
    ASSUME NEW n \in Nat, NEW first, NEW field, ReadsField(first, field),
           NEW chunks, NEW others, ReadAs(chunks, others, n)
    PROVE  /\ first \o FlattenSeq(chunks) \in Cells
           /\ ReadMessage(first \o FlattenSeq(chunks)) =
                 Reads([i \in 1..(n + 1) |-> IF i = 1 THEN field ELSE others[i - 1]], <<>>)
<1>1. first \in Cells
  BY DEF ReadsField
<1>2. PICK flat, left : /\ flat \in Cells /\ flat = FlattenSeq(chunks)
                                  /\ IsRest(left, chunks, n, <<>>) /\ left[0] = flat \o <<>>
  BY RestExists, NoCells DEF ReadAs
<1>3. PICK input \in Cells : input = first \o flat
  BY <1>1, <1>2, Concat
<1>4. left \in [0..n -> Cells] /\ left[n] = <<>> /\ left[0] = flat
      /\ \A i \in 0..(n - 1) : left[i] = chunks[i + 1] \o left[i + 1]
  BY <1>2, Concat DEF IsRest
<1> DEFINE more == [i \in 0..(n + 1) |-> IF i = 0 THEN input ELSE left[i - 1]]
           all == [i \in 1..(n + 1) |-> IF i = 1 THEN first ELSE chunks[i - 1]]
           fields == [i \in 1..(n + 1) |-> IF i = 1 THEN field ELSE others[i - 1]]
<1>5. IsRest(more, all, n + 1, <<>>)
  <2>1. more \in [0..(n + 1) -> Cells]
    BY <1>4
  <2>2. more[n + 1] = <<>>
    BY <1>4
  <2>3. ASSUME NEW i \in 0..((n + 1) - 1) PROVE more[i] = all[i + 1] \o more[i + 1]
    <3>1. CASE i = 0
      <4>1. more[0] = input /\ all[1] = first /\ more[1] = flat
        BY <1>4
      <4> QED
        BY <1>3, <3>1, <4>1
    <3>2. CASE i # 0
      <4>1. i - 1 \in 0..(n - 1) /\ (i - 1) + 1 = i /\ (i + 1) - 1 = i
        BY <3>2
      <4>2. more[i] = left[i - 1] /\ all[i + 1] = chunks[i] /\ more[i + 1] = left[i]
        BY <3>2
      <4>3. left[i - 1] = chunks[(i - 1) + 1] \o left[(i - 1) + 1]
        BY <1>4, <4>1
      <4> QED
        BY <4>1, <4>2, <4>3
    <3> QED
      BY <3>1, <3>2
  <2> HIDE DEF more, all
  <2> QED
    BY <2>1, <2>2, <2>3 DEF IsRest
<1>6. PICK S : fields \in Seq(S) /\ Len(fields) = n + 1
  <2> DEFINE S == {fields[i] : i \in 1..(n + 1)}
  <2>1. fields \in [1..(n + 1) -> S]
    OBVIOUS
  <2> HIDE DEF fields, S
  <2>2. fields \in Seq(S) /\ Len(fields) = n + 1
    BY <2>1
  <2> QED
    BY <2>2
<1>7. ASSUME NEW i \in 1..(n + 1) PROVE ReadsField(all[i], fields[i])
  <2>1. CASE i = 1
    BY <2>1
  <2>2. CASE i # 1
    <3>1. i - 1 \in 1..n
      BY <2>2
    <3>2. ReadsField(chunks[i - 1], others[i - 1])
      BY <3>1 DEF ReadAs
    <3> QED
      BY <2>2, <3>2
  <2> QED
    BY <2>1, <2>2
<1>8. more[0] = input
  OBVIOUS
<1> HIDE DEF more, all, fields
<1>9. ReadMessage(input) = Reads(fields, <<>>)
  <2>1. n + 1 \in Nat
    OBVIOUS
  <2> QED
    BY <1>5, <1>6, <1>7, <1>8, <2>1, FieldsOfMessage
<1> QED
  BY <1>2, <1>3, <1>9 DEF fields

\* Such a function gathers the values of a tag.
Gathers(e, fields, tag, n) ==
    /\ Len(fields) = n /\ e[0] = <<>>
    /\ \A i \in 0..(n - 1) :
          e[i + 1] = IF fields[i + 1].tag = tag THEN Append(e[i], fields[i + 1].value) ELSE e[i]

\* The values found by any function that goes on as ValuesOf does.
LEMMA ValuesAre ==
    ASSUME NEW n \in Nat, NEW fields, NEW tag, NEW e, Gathers(e, fields, tag, n)
    PROVE  ValuesOf(fields, tag) = e[n]
<1>1. /\ Len(fields) = n /\ e[0] = <<>>
      /\ \A i \in 0..(n - 1) :
            e[i + 1] = IF fields[i + 1].tag = tag THEN Append(e[i], fields[i + 1].value) ELSE e[i]
  BY DEF Gathers
<1> DEFINE Step(f) == [i \in 0..n |-> IF i = 0 THEN <<>>
                                      ELSE IF fields[i].tag = tag THEN Append(f[i - 1], fields[i].value)
                                      ELSE f[i - 1]]
           values == CHOOSE f : f = Step(f)
           g == [i \in 0..n |-> e[i]]
<1>2. g = Step(g)
  <2>1. ASSUME NEW i \in 0..n PROVE g[i] = Step(g)[i]
    <3>1. CASE i = 0
      BY <1>1, <3>1
    <3>2. CASE i # 0
      <4>1. i - 1 \in 0..(n - 1) /\ (i - 1) + 1 = i /\ i - 1 \in 0..n
        BY <3>2
      <4>2. g[i - 1] = e[i - 1] /\ g[i] = e[i]
        BY <4>1
      <4>3. e[(i - 1) + 1] = IF fields[(i - 1) + 1].tag = tag
                             THEN Append(e[i - 1], fields[(i - 1) + 1].value) ELSE e[i - 1]
        BY <1>1, <4>1
      <4> QED
        BY <3>2, <4>1, <4>2, <4>3
    <3> QED
      BY <3>1, <3>2
  <2> QED
    BY <2>1
<1>3. values = Step(values)
  BY <1>2
<1>4. ValuesOf(fields, tag) = values[n]
  BY <1>1 DEF ValuesOf
<1> HIDE DEF values
<1>5. values[0] = e[0]
  BY <1>1, <1>3
<1>6. ASSUME NEW i \in 0..(n - 1), values[i] = e[i] PROVE values[i + 1] = e[i + 1]
  <2>1. i + 1 \in 0..n /\ i + 1 # 0 /\ (i + 1) - 1 = i
    OBVIOUS
  <2>2. values[i + 1] = IF fields[i + 1].tag = tag THEN Append(values[i], fields[i + 1].value)
                        ELSE values[i]
    BY <1>3, <2>1
  <2> QED
    BY <1>1, <1>6, <2>2
<1> QED
  BY <1>4, <1>5, <1>6, Alike

-----------------------------------------------------------------------------
(* The host's own requests. *)

\* A string is cells.
LEMMA StringCells == ASSUME NEW s \in Strings PROVE s \in Cells
BY DEF Strings, Cells

\* The peer reads a request of the host to its message.
LEMMA RequestReads ==
    ASSUME NEW message \in Cells, NEW fields, ReadMessage(message) = Reads(fields, <<>>)
    PROVE  PeerReadsMessage(HostRequest(message)) = Reads(fields, <<>>)
<1>1. <<>> \in Strings
  <2>1. \A i \in 0..0 : (i > 0 /\ <<>>[i] \in LeadBytes) <=> (i < 0 /\ <<>>[i + 1] \in TrailBytes)
    OBVIOUS
  <2> QED
    BY <2>1 DEF Strings, IsUtf8
<1>2. IsTask(DefaultTask) /\ TaskOf(DefaultTask) = DefaultTask
  BY <1>1 DEF IsTask, TaskOf, DefaultTask
<1>3. PICK bytes \in Cells : bytes = WriteByteArray(message) /\ bytes \o <<>> = bytes
  BY ByteArrayReads, Concat
<1>4. ReadByteArray(bytes) = Reads(message, <<>>)
  BY <1>3, ByteArrayReads, NoCells
<1>5. PICK body : body = WriteTaskId(DefaultTask) \o bytes
  OBVIOUS
<1>6. ReadTaskId(body) = Reads(DefaultTask, bytes)
  BY <1>2, <1>5, TaskIdReads
<1>7. PICK frame : frame = HostRequest(message)
  OBVIOUS
<1>8. frame.body = body
  <2>1. frame = [version |-> MIN_COMPAT, body |-> body]
    BY <1>3, <1>5, <1>7, Zenon DEF HostRequest
  <2> QED
    BY <2>1
<1> DEFINE third(task, bs, r2) == Then(ReadMessage(bs), LAMBDA f, r3 :
                                    IF task = DefaultTask THEN Reads(f, r2) ELSE Fails("data"))
           second(task, r1) == Then(ReadByteArray(r1), LAMBDA bs, r2 : third(task, bs, r2))
<1>9. PeerReadsMessage(frame) = Then(ReadTaskId(frame.body), second)
  BY DEF PeerReadsMessage
<1>10. third(DefaultTask, message, <<>>) = Reads(fields, <<>>)
  BY ReadsFields DEF Then
<1> HIDE DEF third
<1>11. second(DefaultTask, bytes) = Reads(fields, <<>>)
  BY <1>4, <1>10, ReadsFields DEF Then
<1> HIDE DEF second
<1> QED
  BY <1>6, <1>7, <1>8, <1>9, <1>11, ReadsFields DEF Then

\* One field alone.
LEMMA FieldAlone ==
    ASSUME NEW first, NEW field, ReadsField(first, field)
    PROVE  first \in Cells /\ ReadMessage(first) = Reads(<<field>>, <<>>)
<1>1. PICK n \in Nat, chunks \in Seq(Cells) : n = 0 /\ chunks = <<>>
  <2>1. <<>> \in Seq(Cells)
    OBVIOUS
  <2> QED
    BY <2>1
<1>2. first \in Cells /\ first \o <<>> = first
  BY Concat DEF ReadsField
<1>3. Len(chunks) = n
  BY <1>1
<1>4. PICK others : ReadMessage(first \o FlattenSeq(chunks)) =
         Reads([i \in 1..(n + 1) |-> IF i = 1 THEN field ELSE others[i - 1]], <<>>)
  <2>1. PICK others : ReadAs(chunks, others, n)
    BY <1>1, <1>3 DEF ReadAs
  <2>2. ReadMessage(first \o FlattenSeq(chunks)) =
           Reads([i \in 1..(n + 1) |-> IF i = 1 THEN field ELSE others[i - 1]], <<>>)
    BY <2>1, MessageReads
  <2> QED
    BY <2>2
<1>5. FlattenSeq(chunks) = <<>>
  BY <1>1 DEF FlattenSeq
<1>6. [i \in 1..(n + 1) |-> IF i = 1 THEN field ELSE others[i - 1]] = <<field>>
  <2>1. PICK k : k = n + 1
    OBVIOUS
  <2>2. k = 1
    BY <1>1, <2>1
  <2>3. [i \in 1..1 |-> IF i = 1 THEN field ELSE others[i - 1]] = <<field>>
    <3>1. PICK f : f = [i \in 1..1 |-> IF i = 1 THEN field ELSE others[i - 1]]
      OBVIOUS
    <3>2. f = [i \in 1..1 |-> field]
      BY <3>1
    <3>3. <<field>> = [i \in 1..1 |-> field]
      OBVIOUS
    <3> QED
      BY <3>1, <3>2, <3>3
  <2> QED
    BY <2>1, <2>2, <2>3
<1> QED
  BY <1>1, <1>2, <1>4, <1>5, <1>6

\* The settings request has one field.
LEMMA SettingsRequestRead ==
    PeerReadsMessage(SettingsRequest) = Reads(<<[tag |-> 2, value |-> <<ENVIRONMENT_SETTINGS>>]>>, <<>>)
<1>1. PICK message : message = EncodeExtensionRequest(<<>>, ENVIRONMENT_SETTINGS)
  OBVIOUS
<1>2. ENVIRONMENT_SETTINGS \in Nat
  BY DEF ENVIRONMENT_SETTINGS
<1>3. PICK first : first = Field(2, VARINT, Varint[ENVIRONMENT_SETTINGS])
                   /\ ReadsField(first, [tag |-> 2, value |-> <<ENVIRONMENT_SETTINGS>>])
  BY <1>2, NumberField
<1>4. message = first
  <2>1. first \in Cells
    BY <1>3 DEF ReadsField
  <2>2. <<>> \o first = first
    BY <2>1, Concat
  <2>3. FlattenSeq([i \in DOMAIN <<>> |-> Field(1, LENGTH_DELIMITED, LengthDelimited(EncodeIdentity(<<>>[i])))])
           = <<>>
    BY DEF FlattenSeq
  <2> QED
    BY <1>1, <1>3, <2>2, <2>3 DEF EncodeExtensionRequest
<1>5. message \in Cells /\ ReadMessage(message) = Reads(<<[tag |-> 2, value |-> <<ENVIRONMENT_SETTINGS>>]>>, <<>>)
  BY <1>3, <1>4, FieldAlone
<1> QED
  BY <1>1, <1>5, RequestReads DEF SettingsRequest

-----------------------------------------------------------------------------
(* Registrations. *)

\* Routes as the extension has them.
Registrable == [method : 0..8, path : Words, name : Words]

\* The parts of a registration, cell by cell.
IsRegistration(r, m, path, name, p, n) ==
    /\ Len(r) = 3 + p + n
    /\ r[1] = 65 + m /\ r[2] = SPACE /\ r[3 + p] = SPACE
    /\ \A i \in 1..p : r[2 + i] = path[i]
    /\ \A i \in 1..n : r[3 + p + i] = name[i]

\* RegistrationString puts them there.
LEMMA RegistrationIs ==
    ASSUME NEW path \in Cells, NEW name \in Cells, NEW m \in 0..8, NEW route,
           route = [method |-> m, path |-> path, name |-> name],
           NEW p \in Nat, NEW n \in Nat, p = Len(path), n = Len(name)
    PROVE  /\ RegistrationString(route) \in Cells
           /\ IsRegistration(RegistrationString(route), m, path, name, p, n)
<1>1. path = route.path /\ name = route.name /\ m = route.method
  OBVIOUS
<1>2. PICK r : r = RegistrationString(route)
  OBVIOUS
<1>3. PICK head \in Cells : head = <<65 + m>> \o <<SPACE>> /\ Len(head) = 2
                            /\ head[1] = 65 + m /\ head[2] = SPACE
  <2>1. PICK k \in Nat, space \in Nat : k = 65 + m /\ space = SPACE
    BY DEF SPACE
  <2>2. PICK head : head = <<k>> \o <<space>>
    OBVIOUS
  <2>3. head \in Cells /\ Len(head) = 2 /\ head[1] = k /\ head[2] = space
    BY <2>2 DEF Cells
  <2> QED
    BY <2>1, <2>2, <2>3
<1>4. PICK one \in Cells : one = <<SPACE>> /\ Len(one) = 1 /\ one[1] = SPACE
  <2>1. <<SPACE>> \in Cells
    BY DEF SPACE, Cells
  <2> QED
    BY <2>1
<1>5. PICK a \in Cells : /\ a = head \o path /\ Len(a) = 2 + p
                         /\ \A i \in 1..2 : a[i] = head[i]
                         /\ \A i \in 1..p : a[2 + i] = path[i]
  <2>1. PICK a \in Cells : a = head \o path
    BY Concat
  <2>2. /\ Len(a) = Len(head) + Len(path) /\ \A i \in 1..Len(head) : a[i] = head[i]
        /\ \A i \in 1..Len(path) : a[Len(head) + i] = path[i]
    BY <2>1, ConcatCells
  <2>3. Len(head) = 2 /\ Len(path) = p
    BY <1>1, <1>3
  <2>4. Len(a) = 2 + p /\ (\A i \in 1..2 : a[i] = head[i]) /\ \A i \in 1..p : a[2 + i] = path[i]
    BY <2>2, <2>3
  <2> QED
    BY <2>1, <2>4
<1>6. PICK b \in Cells : /\ b = a \o one /\ Len(b) = 3 + p
                         /\ \A i \in 1..(2 + p) : b[i] = a[i]
                         /\ b[3 + p] = SPACE
  <2>1. PICK b \in Cells : b = a \o one
    BY Concat
  <2>2. /\ Len(b) = Len(a) + Len(one) /\ \A i \in 1..Len(a) : b[i] = a[i]
        /\ \A i \in 1..Len(one) : b[Len(a) + i] = one[i]
    BY <2>1, ConcatCells
  <2>3. Len(a) = 2 + p /\ Len(one) = 1 /\ one[1] = SPACE
    BY <1>4, <1>5
  <2>4. b[(2 + p) + 1] = one[1]
    <3>1. 1 \in 1..1
      OBVIOUS
    <3> QED
      BY <2>2, <2>3, <3>1
  <2>5. (2 + p) + 1 = 3 + p
    OBVIOUS
  <2> QED
    BY <2>1, <2>2, <2>3, <2>4, <2>5
<1>7. PICK c \in Cells : /\ c = b \o name /\ Len(c) = 3 + p + n
                         /\ \A i \in 1..(3 + p) : c[i] = b[i]
                         /\ \A i \in 1..n : c[3 + p + i] = name[i]
  <2>1. PICK c \in Cells : c = b \o name
    BY Concat
  <2>2. /\ Len(c) = Len(b) + Len(name) /\ \A i \in 1..Len(b) : c[i] = b[i]
        /\ \A i \in 1..Len(name) : c[Len(b) + i] = name[i]
    BY <2>1, ConcatCells
  <2>3. Len(b) = 3 + p /\ Len(name) = n
    BY <1>1, <1>6
  <2>4. PICK q \in Nat : q = 3 + p
    OBVIOUS
  <2>5. Len(b) = q /\ Len(name) = n
    BY <2>3, <2>4
  <2>6. Len(c) = q + n
    BY <2>2, <2>5
  <2>7. \A i \in 1..q : c[i] = b[i]
    BY <2>2, <2>5
  <2>8. \A i \in 1..n : c[q + i] = name[i]
    BY <2>2, <2>5
  <2> QED
    BY <2>1, <2>4, <2>6, <2>7, <2>8
<1>8. r = c
  BY <1>1, <1>2, <1>3, <1>4, <1>5, <1>6, <1>7 DEF RegistrationString, AsStr
<1>9. \A i \in 1..p : c[2 + i] = path[i]
  <2>1. \A i \in 1..p : 2 + i \in 1..(2 + p) /\ 2 + i \in 1..(3 + p)
    OBVIOUS
  <2> QED
    BY <1>5, <1>6, <1>7, <2>1
<1>10. c[1] = 65 + m /\ c[2] = SPACE /\ c[3 + p] = SPACE
  <2>1. /\ 1 \in 1..2 /\ 2 \in 1..2 /\ 1 \in 1..(2 + p) /\ 2 \in 1..(2 + p)
        /\ 1 \in 1..(3 + p) /\ 2 \in 1..(3 + p) /\ 3 + p \in 1..(3 + p)
    OBVIOUS
  <2> QED
    BY <1>3, <1>5, <1>6, <1>7, <2>1
<1>11. IsRegistration(c, m, path, name, p, n)
  BY <1>7, <1>9, <1>10 DEF IsRegistration
<1> QED
  BY <1>2, <1>7, <1>8, <1>11

\* The parts of a registration are where its first two spaces say.
LEMMA RouteReads ==
    ASSUME NEW route \in Registrable
    PROVE  PeerReadsRoute(RegistrationString(route)) =
              [method |-> route.method, path |-> route.path, name |-> route.name]
<1>1. PICK path \in Cells, name \in Cells, m \in 0..8 :
         /\ route = [method |-> m, path |-> path, name |-> name]
         /\ SPACE \notin ToSet(path) /\ SPACE \notin ToSet(name)
  BY DEF Registrable, Words, Strings, Cells
<1>2. PICK p \in Nat, n \in Nat : p = Len(path) /\ n = Len(name)
  BY DEF Cells
<1>3. PICK r \in Cells : r = RegistrationString(route) /\ IsRegistration(r, m, path, name, p, n)
  <2>1. /\ RegistrationString(route) \in Cells
        /\ IsRegistration(RegistrationString(route), m, path, name, p, n)
    BY <1>1, <1>2, RegistrationIs
  <2> QED
    BY <2>1
<1> DEFINE spaces == {i \in DOMAIN r : r[i] = SPACE}
<1>4. spaces = {2, 3 + p}
  <2>1. DOMAIN r = 1..(3 + p + n)
    BY <1>3 DEF Cells, IsRegistration
  <2>2. 2 \in spaces /\ 3 + p \in spaces
    BY <1>3, <2>1 DEF IsRegistration
  <2>3. DOMAIN path = 1..p /\ DOMAIN name = 1..n
    BY <1>2 DEF Cells
  <2>4. ASSUME NEW i \in 1..(3 + p + n), r[i] = SPACE PROVE i \in {2, 3 + p}
    <3>1. i # 1
      BY <1>3, <2>4 DEF SPACE, IsRegistration
    <3>2. \A k \in 1..p : path[k] # SPACE
      BY <1>1, <2>3 DEF ToSet
    <3>3. \A k \in 1..n : name[k] # SPACE
      BY <1>1, <2>3 DEF ToSet
    <3>4. CASE i > 2 /\ i < 3 + p
      <4>1. PICK k \in 1..p : i = 2 + k
        <5>1. i - 2 \in 1..p /\ i = 2 + (i - 2)
          BY <3>4
        <5> QED
          BY <5>1
      <4> QED
        BY <1>3, <2>4, <3>2, <4>1 DEF IsRegistration
    <3>5. CASE i > 3 + p
      <4>1. PICK k \in 1..n : i = 3 + p + k
        <5>1. i - (3 + p) \in 1..n /\ i = 3 + p + (i - (3 + p))
          BY <3>5
        <5> QED
          BY <5>1
      <4> QED
        BY <1>3, <2>4, <3>3, <4>1 DEF IsRegistration
    <3> QED
      BY <3>1, <3>4, <3>5
  <2> QED
    BY <2>1, <2>2, <2>4
<1>5. Min(spaces) = 2 /\ Min(spaces \ {2}) = 3 + p
  <2>1. spaces \ {2} = {3 + p} /\ 3 + p # 2
    BY <1>4
  <2> HIDE DEF spaces
  <2>2. \A x \in spaces : (\A y \in spaces : x <= y) => x = 2
    BY <1>4
  <2>3. 2 \in spaces /\ \A y \in spaces : 2 <= y
    BY <1>4
  <2>4. Min(spaces) = 2
    BY <2>2, <2>3 DEF Min
  <2>5. Min({3 + p}) = 3 + p
    BY DEF Min
  <2> QED
    BY <2>1, <2>4, <2>5
<1>6. PeerReadsRoute(r) = [method |-> r[1] - 65, path |-> SubSeq(r, 3, 2 + p),
                           name |-> SubSeq(r, 4 + p, 3 + p + n)]
  <2>1. 2 + 1 = 3 /\ (3 + p) - 1 = 2 + p /\ (3 + p) + 1 = 4 + p
    OBVIOUS
  <2>2. PeerReadsRoute(r) = [method |-> r[1] - 65, path |-> SubSeq(r, 2 + 1, (3 + p) - 1),
                             name |-> SubSeq(r, (3 + p) + 1, Len(r))]
    BY <1>5, Zenon DEF PeerReadsRoute
  <2> QED
    BY <1>3, <2>1, <2>2 DEF IsRegistration
<1>7. SubSeq(r, 3, 2 + p) = path
  <2>1. PICK s \in Cells : /\ s = SubSeq(r, 3, 2 + p) /\ Len(s) = p
                           /\ \A i \in 1..p : s[i] = r[2 + i]
    <3>1. SubSeq(r, 3, 2 + p) \in Cells /\ Len(SubSeq(r, 3, 2 + p)) = p
      BY <1>3 DEF Cells, IsRegistration
    <3>2. \A i \in 1..p : SubSeq(r, 3, 2 + p)[i] = r[2 + i]
      BY <1>3 DEF Cells, IsRegistration
    <3> QED
      BY <3>1, <3>2
  <2>2. Len(path) = p /\ \A i \in 1..p : s[i] = path[i]
    BY <1>2, <1>3, <2>1 DEF IsRegistration
  <2>3. s = path
    BY <2>1, <2>2, SameCells
  <2> QED
    BY <2>1, <2>3
<1>8. SubSeq(r, 4 + p, 3 + p + n) = name
  <2>1. PICK s \in Cells : /\ s = SubSeq(r, 4 + p, 3 + p + n) /\ Len(s) = n
                           /\ \A i \in 1..n : s[i] = r[3 + p + i]
    <3>1. SubSeq(r, 4 + p, 3 + p + n) \in Cells /\ Len(SubSeq(r, 4 + p, 3 + p + n)) = n
      BY <1>3 DEF Cells, IsRegistration
    <3>2. \A i \in 1..n : SubSeq(r, 4 + p, 3 + p + n)[i] = r[3 + p + i]
      BY <1>3 DEF Cells, IsRegistration
    <3> QED
      BY <3>1, <3>2
  <2>2. Len(name) = n /\ \A i \in 1..n : s[i] = name[i]
    BY <1>2, <1>3, <2>1 DEF IsRegistration
  <2>3. s = name
    BY <2>1, <2>2, SameCells
  <2> QED
    BY <2>1, <2>3
<1>9. r[1] - 65 = m
  BY <1>3 DEF IsRegistration
<1> QED
  BY <1>1, <1>3, <1>6, <1>7, <1>8, <1>9

-----------------------------------------------------------------------------
(* The registration as the peer has it. *)

\* The fields of a registration: the identity, and an action for each route.
IdentityField == [tag |-> 1, value |-> EncodeIdentity(UNIQUE_ID)]
ActionField(registration) == [tag |-> 2, value |-> registration]

RegistrationFields(registrations, n) ==
    [i \in 1..(n + 1) |-> IF i = 1 THEN IdentityField ELSE ActionField(registrations[i - 1])]

\* A message of one field with the identity of the extension.
LEMMA IdentityReads ==
    /\ EncodeIdentity(UNIQUE_ID) \in Cells
    /\ ValuesOf(ReadMessage(EncodeIdentity(UNIQUE_ID)).value, 1) = <<UNIQUE_ID>>
<1>1. UNIQUE_ID \in Cells
  BY DEF UNIQUE_ID, Cells
<1>2. PICK field : field = [tag |-> 1, value |-> UNIQUE_ID]
  OBVIOUS
<1>3. ReadsField(EncodeIdentity(UNIQUE_ID), field)
  BY <1>1, <1>2, BytesField DEF EncodeIdentity
<1>4. EncodeIdentity(UNIQUE_ID) \in Cells /\ ReadMessage(EncodeIdentity(UNIQUE_ID)) = Reads(<<field>>, <<>>)
  BY <1>3, FieldAlone
<1>5. ReadMessage(EncodeIdentity(UNIQUE_ID)).value = <<field>>
  BY <1>4, ReadsFields
<1>6. PICK n \in Nat : n = 1
  OBVIOUS
<1>7. PICK fields, e : /\ fields = <<field>>
                       /\ e = [i \in 0..1 |-> IF i = 0 THEN <<>> ELSE <<UNIQUE_ID>>]
  OBVIOUS
<1>8. Len(fields) = n /\ e[0] = <<>> /\ e[1] = <<UNIQUE_ID>>
  BY <1>6, <1>7
<1>9. \A i \in 0..(n - 1) :
         e[i + 1] = IF fields[i + 1].tag = 1 THEN Append(e[i], fields[i + 1].value) ELSE e[i]
  <2>1. fields[1].tag = 1 /\ fields[1].value = UNIQUE_ID
    BY <1>2, <1>7
  <2>2. Append(<<>>, UNIQUE_ID) = <<UNIQUE_ID>>
    OBVIOUS
  <2>3. e[0 + 1] = IF fields[0 + 1].tag = 1 THEN Append(e[0], fields[0 + 1].value) ELSE e[0]
    BY <1>8, <2>1, <2>2
  <2> QED
    BY <1>6, <2>3
<1>10. ValuesOf(fields, 1) = e[n]
  BY <1>8, <1>9, ValuesAre DEF Gathers
<1> QED
  BY <1>4, <1>5, <1>6, <1>7, <1>8, <1>10

\* The values in a registration, by their tags.
LEMMA RegistrationValues ==
    ASSUME NEW n \in Nat, NEW registrations \in Seq(Cells), Len(registrations) = n
    PROVE  /\ ValuesOf(RegistrationFields(registrations, n), 1) = <<EncodeIdentity(UNIQUE_ID)>>
           /\ ValuesOf(RegistrationFields(registrations, n), 2) = registrations
           /\ ValuesOf(RegistrationFields(registrations, n), 3) = <<>>
<1>1. PICK m \in Nat : m = n + 1
  OBVIOUS
<1>2. PICK fields : fields = RegistrationFields(registrations, n)
  OBVIOUS
<1>3. PICK id \in Cells : id = EncodeIdentity(UNIQUE_ID)
  BY IdentityReads
<1>4. /\ Len(fields) = m /\ fields[1].tag = 1 /\ fields[1].value = id
      /\ \A i \in 1..n : fields[i + 1].tag = 2 /\ fields[i + 1].value = registrations[i]
  <2>1. fields = [i \in 1..m |-> IF i = 1 THEN IdentityField ELSE ActionField(registrations[i - 1])]
    BY <1>1, <1>2 DEF RegistrationFields
  <2>2. Len(fields) = m
    BY <2>1
  <2>3. fields[1] = IdentityField
    BY <1>1, <2>1
  <2>4. \A i \in 1..n : fields[i + 1] = ActionField(registrations[i])
    <3>1. ASSUME NEW i \in 1..n PROVE fields[i + 1] = ActionField(registrations[i])
      <4>1. i + 1 \in 1..m /\ i + 1 # 1 /\ (i + 1) - 1 = i
        BY <1>1
      <4> QED
        BY <2>1, <4>1
    <3> QED
      BY <3>1
  <2>5. fields[1].tag = 1 /\ fields[1].value = id
    BY <1>3, <2>3 DEF IdentityField
  <2>6. \A i \in 1..n : fields[i + 1].tag = 2 /\ fields[i + 1].value = registrations[i]
    <3>1. ASSUME NEW i \in 1..n
          PROVE  fields[i + 1].tag = 2 /\ fields[i + 1].value = registrations[i]
      <4>1. PICK registration : registration = registrations[i]
        OBVIOUS
      <4>2. fields[i + 1] = [tag |-> 2, value |-> registration]
        BY <2>4, <4>1 DEF ActionField
      <4> QED
        BY <4>1, <4>2
    <3> QED
      BY <3>1
  <2> QED
    BY <2>2, <2>5, <2>6
<1>5. \A i \in 0..(m - 1) : i = 0 \/ i \in 1..n
  BY <1>1
<1>6. ValuesOf(fields, 1) = <<id>>
  <2>1. PICK one : one = <<id>> /\ one = Append(<<>>, id)
    <3>1. Append(<<>>, id) = <<id>>
      OBVIOUS
    <3> QED
      BY <3>1
  <2>2. PICK e : e = [i \in 0..m |-> IF i = 0 THEN <<>> ELSE one]
    OBVIOUS
  <2>3. e[0] = <<>> /\ e[1] = one /\ e[m] = one /\ \A i \in 1..n : e[i + 1] = e[i]
    BY <1>1, <2>2
  <2>4. \A i \in 0..(m - 1) :
           e[i + 1] = IF fields[i + 1].tag = 1 THEN Append(e[i], fields[i + 1].value) ELSE e[i]
    <3>1. e[0 + 1] = IF fields[0 + 1].tag = 1 THEN Append(e[0], fields[0 + 1].value) ELSE e[0]
      BY <1>4, <2>1, <2>3
    <3>2. \A i \in 1..n : fields[i + 1].tag # 1
      <4>1. ASSUME NEW i \in 1..n, NEW tag, tag = fields[i + 1].tag PROVE tag # 1
        <5>1. tag = 2
          BY <1>4, <4>1
        <5> QED
          BY <5>1
      <4> QED
        BY <4>1
    <3>3. \A i \in 1..n : e[i + 1] = IF fields[i + 1].tag = 1 THEN Append(e[i], fields[i + 1].value) ELSE e[i]
      BY <2>3, <3>2
    <3> QED
      BY <1>5, <3>1, <3>3
  <2>5. Gathers(e, fields, 1, m)
    BY <1>4, <2>3, <2>4 DEF Gathers
  <2>6. ValuesOf(fields, 1) = e[m]
    BY <2>5, ValuesAre
  <2> QED
    BY <2>1, <2>3, <2>6
<1>7. ValuesOf(fields, 2) = registrations
  <2>1. PICK e : e = [i \in 0..m |-> IF i = 0 THEN <<>> ELSE SubSeq(registrations, 1, i - 1)]
    OBVIOUS
  <2>2. e[0] = <<>> /\ e[1] = <<>> /\ e[m] = registrations
    <3>1. SubSeq(registrations, 1, 0) = <<>> /\ SubSeq(registrations, 1, n) = registrations
      OBVIOUS
    <3>2. 1 - 1 = 0 /\ m - 1 = n /\ m \in 0..m /\ m # 0 /\ 1 \in 0..m /\ 0 \in 0..m
      BY <1>1
    <3> QED
      BY <2>1, <3>1, <3>2
  <2>3. \A i \in 0..(m - 1) :
           e[i + 1] = IF fields[i + 1].tag = 2 THEN Append(e[i], fields[i + 1].value) ELSE e[i]
    <3>1. e[0 + 1] = IF fields[0 + 1].tag = 2 THEN Append(e[0], fields[0 + 1].value) ELSE e[0]
      BY <1>4, <2>2
    <3>2. ASSUME NEW i \in 1..n
          PROVE  e[i + 1] = IF fields[i + 1].tag = 2 THEN Append(e[i], fields[i + 1].value) ELSE e[i]
      <4>1. i + 1 \in 0..m /\ i + 1 # 0 /\ (i + 1) - 1 = i /\ i \in 0..m /\ i # 0
        BY <1>1
      <4>2. e[i + 1] = SubSeq(registrations, 1, i) /\ e[i] = SubSeq(registrations, 1, i - 1)
        BY <2>1, <4>1
      <4>3. SubSeq(registrations, 1, i) = Append(SubSeq(registrations, 1, i - 1), registrations[i])
        OBVIOUS
      <4> QED
        BY <1>4, <4>2, <4>3
    <3> QED
      BY <1>5, <3>1, <3>2
  <2>4. Gathers(e, fields, 2, m)
    BY <1>4, <2>2, <2>3 DEF Gathers
  <2>5. ValuesOf(fields, 2) = e[m]
    BY <2>4, ValuesAre
  <2> QED
    BY <2>2, <2>5
<1>8. ValuesOf(fields, 3) = <<>>
  <2>1. PICK e : e = [i \in 0..m |-> <<>>]
    OBVIOUS
  <2>2. /\ e[0] = <<>> /\ e[1] = <<>> /\ e[m] = <<>>
        /\ \A i \in 1..n : e[i + 1] = e[i]
    BY <1>1, <2>1
  <2>3. \A i \in 0..(m - 1) :
           e[i + 1] = IF fields[i + 1].tag = 3 THEN Append(e[i], fields[i + 1].value) ELSE e[i]
    <3>1. e[0 + 1] = IF fields[0 + 1].tag = 3 THEN Append(e[0], fields[0 + 1].value) ELSE e[0]
      BY <1>4, <2>2
    <3>2. \A i \in 1..n : e[i + 1] = IF fields[i + 1].tag = 3 THEN Append(e[i], fields[i + 1].value) ELSE e[i]
      BY <1>4, <2>2
    <3> QED
      BY <1>5, <3>1, <3>2
  <2>4. Gathers(e, fields, 3, m)
    BY <1>4, <2>2, <2>3 DEF Gathers
  <2>5. ValuesOf(fields, 3) = e[m]
    BY <2>4, ValuesAre
  <2> QED
    BY <2>2, <2>5
<1> QED
  BY <1>2, <1>3, <1>6, <1>7, <1>8

\* The message the host registers with is read to these fields.
LEMMA RegistrationReads ==
    ASSUME NEW n \in Nat, NEW registrations \in Seq(Cells), Len(registrations) = n
    PROVE  PeerReadsMessage(HostRequest(EncodeRegisterRestActions(UNIQUE_ID, registrations, <<>>)))
              = Reads(RegistrationFields(registrations, n), <<>>)
<1>1. PICK message : message = EncodeRegisterRestActions(UNIQUE_ID, registrations, <<>>)
  OBVIOUS
<1>2. PICK id \in Cells : id = EncodeIdentity(UNIQUE_ID)
  BY IdentityReads
<1>3. PICK first \in Cells : first = Field(1, LENGTH_DELIMITED, LengthDelimited(id))
                             /\ ReadsField(first, IdentityField)
  <2>1. PICK first : first = Field(1, LENGTH_DELIMITED, LengthDelimited(id))
    OBVIOUS
  <2>2. ReadsField(first, [tag |-> 1, value |-> id])
    BY <2>1, BytesField
  <2>3. ReadsField(first, IdentityField)
    BY <1>2, <2>2 DEF IdentityField
  <2>4. first \in Cells
    BY <2>2 DEF ReadsField
  <2> QED
    BY <2>1, <2>3, <2>4
<1> DEFINE action(i) == Field(2, LENGTH_DELIMITED, LengthDelimited(registrations[i]))
<1>4. \A i \in 1..n : ReadsField(action(i), ActionField(registrations[i]))
  BY BytesField DEF ActionField
<1>5. \A i \in 1..n : action(i) \in Cells
  BY <1>4 DEF ReadsField
<1>6. Repeated(2, registrations) = FlattenSeq([i \in 1..n |-> action(i)])
  <2>1. DOMAIN registrations = 1..n
    OBVIOUS
  <2> QED
    BY <2>1 DEF Repeated
<1> HIDE DEF action
<1>7. PICK chunks \in Seq(Cells) : /\ Repeated(2, registrations) = FlattenSeq(chunks)
                                   /\ Len(chunks) = n /\ \A i \in 1..n : chunks[i] = action(i)
  <2>1. PICK chunks : chunks = [i \in 1..n |-> action(i)]
    OBVIOUS
  <2>2. chunks \in Seq(Cells) /\ Len(chunks) = n /\ \A i \in 1..n : chunks[i] = action(i)
    BY <1>5, <2>1
  <2> QED
    BY <1>6, <2>1, <2>2
<1>8. PICK others : others = [i \in 1..n |-> ActionField(registrations[i])]
  OBVIOUS
<1>9. ReadAs(chunks, others, n)
  BY <1>4, <1>7, <1>8 DEF ReadAs
<1>10. /\ first \o FlattenSeq(chunks) \in Cells
       /\ ReadMessage(first \o FlattenSeq(chunks)) =
             Reads([i \in 1..(n + 1) |-> IF i = 1 THEN IdentityField ELSE others[i - 1]], <<>>)
  BY <1>3, <1>9, MessageReads
<1>11. [i \in 1..(n + 1) |-> IF i = 1 THEN IdentityField ELSE others[i - 1]]
          = RegistrationFields(registrations, n)
  <2>1. \A i \in 1..(n + 1) : i # 1 => others[i - 1] = ActionField(registrations[i - 1])
    <3>1. \A i \in 1..(n + 1) : i # 1 => i - 1 \in 1..n
      OBVIOUS
    <3> QED
      BY <1>8, <3>1
  <2> QED
    BY <2>1 DEF RegistrationFields
<1>12. message \in Cells /\ ReadMessage(message) = Reads(RegistrationFields(registrations, n), <<>>)
  <2>1. PICK input \in Cells : input = first \o FlattenSeq(chunks)
    BY <1>10
  <2>2. Repeated(3, <<>>) = <<>>
    BY DEF Repeated, FlattenSeq
  <2>3. input \o <<>> = input
    BY Concat
  <2>4. message = input \o <<>>
    BY <1>1, <1>2, <1>3, <1>7, <2>1, <2>2 DEF EncodeRegisterRestActions
  <2> QED
    BY <1>10, <1>11, <2>1, <2>3, <2>4
<1> QED
  BY <1>1, <1>12, RequestReads

\* What the peer reads in the request that registers the routes.
LEMMA RegistrationRead ==
    ASSUME routes \in Seq(Registrable), outbound = RegisterRequest,
           NEW n \in Nat, n = Len(routes),
           NEW registrations, registrations = [i \in 1..n |-> RegistrationString(routes[i])]
    PROVE  /\ registrations \in Seq(Cells) /\ Len(registrations) = n
           /\ PeerReadsMessage(outbound) = Reads(RegistrationFields(registrations, n), <<>>)
           /\ ValuesOf(PeerReadsMessage(outbound).value, 2) = registrations
<1>1. DOMAIN routes = 1..n /\ \A i \in 1..n : routes[i] \in Registrable
  OBVIOUS
<1>2. \A i \in 1..n : RegistrationString(routes[i]) \in Cells
  <2>1. ASSUME NEW route \in Registrable PROVE RegistrationString(route) \in Cells
    <3>1. PICK path \in Cells, name \in Cells, m \in 0..8 :
             route = [method |-> m, path |-> path, name |-> name]
      BY DEF Registrable, Words, Strings, Cells
    <3>2. PICK p \in Nat, k \in Nat : p = Len(path) /\ k = Len(name)
      BY DEF Cells
    <3> QED
      BY <3>1, <3>2, RegistrationIs
  <2> QED
    BY <1>1, <2>1
<1>3. registrations \in Seq(Cells) /\ Len(registrations) = n
  BY <1>2
<1>4. PICK fields : fields = RegistrationFields(registrations, n)
  OBVIOUS
<1>5. outbound = HostRequest(EncodeRegisterRestActions(UNIQUE_ID, registrations, <<>>))
  BY <1>1 DEF RegisterRequest
<1>6. PICK message : message = PeerReadsMessage(outbound) /\ message = Reads(fields, <<>>)
  BY <1>3, <1>4, <1>5, RegistrationReads
<1>7. message.value = fields
  BY <1>6, ReadsFields
<1>8. ValuesOf(fields, 2) = registrations
  BY <1>3, <1>4, RegistrationValues
<1> QED
  BY <1>3, <1>4, <1>6, <1>7, <1>8

\* The peer learns the routes from the request that registers them.
LEMMA RoutesRead ==
    ASSUME routes \in Seq(Registrable), outbound = RegisterRequest, stage = "registering"
    PROVE  PeerLearnsRoutes
<1>1. PICK n \in Nat : n = Len(routes) /\ DOMAIN routes = 1..n
  OBVIOUS
<1>2. PICK registrations : registrations = [i \in 1..n |-> RegistrationString(routes[i])]
  OBVIOUS
<1>3. \A i \in 1..n : routes[i] \in Registrable
  BY <1>1
<1>4. registrations \in Seq(Cells) /\ Len(registrations) = n /\ DOMAIN registrations = 1..n
  BY <1>1, <1>2, RegistrationRead
<1>5. PICK fields : fields = RegistrationFields(registrations, n)
  OBVIOUS
<1>6. PICK message : message = PeerReadsMessage(outbound) /\ message = Reads(fields, <<>>)
  BY <1>1, <1>2, <1>5, RegistrationRead
<1>7. message.error = "none" /\ message.rest = <<>> /\ message.value = fields
  BY <1>6, ReadsFields
<1>8. /\ ValuesOf(fields, 1) = <<EncodeIdentity(UNIQUE_ID)>>
       /\ ValuesOf(fields, 2) = registrations
       /\ ValuesOf(fields, 3) = <<>>
  BY <1>4, <1>5, RegistrationValues
<1>9. IdentitiesOf(fields) = << <<UNIQUE_ID>> >>
  <2>1. PICK ids : ids = <<EncodeIdentity(UNIQUE_ID)>>
    OBVIOUS
  <2>2. DOMAIN ids = 1..1 /\ ids[1] = EncodeIdentity(UNIQUE_ID)
    BY <2>1
  <2>3. IdentitiesOf(fields) = [i \in 1..1 |-> ValuesOf(ReadMessage(ids[i]).value, 1)]
    BY <1>8, <2>1, <2>2 DEF IdentitiesOf
  <2>4. \A i \in 1..1 : ValuesOf(ReadMessage(ids[i]).value, 1) = <<UNIQUE_ID>>
    BY <2>2, IdentityReads
  <2>5. << <<UNIQUE_ID>> >> = [i \in 1..1 |-> <<UNIQUE_ID>>]
    OBVIOUS
  <2> QED
    BY <2>3, <2>4, <2>5
<1>10. [i \in DOMAIN registrations |-> PeerReadsRoute(registrations[i])] =
          [i \in DOMAIN routes |->
              [method |-> routes[i].method, path |-> routes[i].path, name |-> routes[i].name]]
  <2>1. \A i \in 1..n : PeerReadsRoute(registrations[i]) =
           [method |-> routes[i].method, path |-> routes[i].path, name |-> routes[i].name]
    BY <1>2, <1>3, RouteReads
  <2> QED
    BY <1>1, <1>4, <2>1
<1> QED
  BY <1>6, <1>7, <1>8, <1>9, <1>10 DEF PeerLearnsRoutes

-----------------------------------------------------------------------------
(* The messages of the host, as long as they wait for their answers. *)

\* What the process stored at its start is what it registers and responds with:
\* a request of the host stays as it was written until the peer has answered it,
\* and the peer has kept an action of the registration if there were routes.
MessagesInv ==
    /\ routes \in RouteLists
    /\ interfaces \in Seq(Strings)
    /\ steady => interfaces = ImplementedInterfaces(routes)
    /\ stage = "registering" => outbound = RegisterRequest
    /\ stage = "configuring" => outbound = SettingsRequest
    /\ stage \in {"acknowledging", "configuring", "settled", "initialized"} =>
          (learnt = <<>> <=> routes = <<>>)

LEMMA InitMessages == Init => MessagesInv
<1> SUFFICES ASSUME Init PROVE MessagesInv
  OBVIOUS
<1>1. interfaces \in Seq(Strings)
  BY InterfacesAreStrings, InterfacesAssumption DEF Init, New
<1>2. steady => interfaces = ImplementedInterfaces(routes)
  BY DEF Init, New
<1> QED
  BY <1>1, <1>2 DEF Init, New, MessagesInv

\* The peer has read an action if the extension has a route.
LEMMA ActionsLearnt ==
    ASSUME MessagesInv, PeerAcknowledges PROVE learnt' = <<>> <=> routes = <<>>
<1>1. routes \in Seq(Registrable) /\ outbound = RegisterRequest
  BY RoutesAssumption DEF MessagesInv, Registrable, PeerAcknowledges, PeerAnswers
<1>2. PICK n \in Nat : n = Len(routes)
  BY <1>1
<1>3. PICK registrations : registrations = [i \in 1..n |-> RegistrationString(routes[i])]
  OBVIOUS
<1>4. learnt' = registrations /\ registrations \in Seq(Cells) /\ Len(registrations) = n
  BY <1>1, <1>2, <1>3, RegistrationRead DEF PeerAcknowledges
<1> QED
  BY <1>1, <1>2, <1>4

\* Only the action that sends a request brings its stage, and no action
\* changes what is sent in that stage.
LEMMA MessagesInvariant == Spec => []MessagesInv
<1>1. MessagesInv /\ [Next]_vars => MessagesInv'
  <2> SUFFICES ASSUME MessagesInv, [Next]_vars PROVE MessagesInv'
    OBVIOUS
  <2>1. UNCHANGED <<routes, interfaces, steady>>
    BY DEF Next, vars, server, Configure, Bind, BindFails, PeerOpens, HandleTcpHandshake, PeerAgrees,
           HandleTransportHandshake, PeerInitializes, HandleInitializeExtension, PeerAcknowledges,
           HandleAcknowledgement, PeerSendsSettings, HandleSettings, PeerAnswers
  <2>2. RegisterRequest' = RegisterRequest /\ SettingsRequest' = SettingsRequest
    BY <2>1 DEF RegisterRequest, SettingsRequest
  <2>3. stage' = "registering" => outbound' = RegisterRequest
    <3>1. CASE HandleInitializeExtension
      BY <3>1 DEF HandleInitializeExtension
    <3>2. CASE UNCHANGED vars
      BY <3>2 DEF MessagesInv, vars
    <3>3. CASE Next /\ ~HandleInitializeExtension
      BY <3>3 DEF Next, Configure, Bind, BindFails, PeerOpens, HandleTcpHandshake, PeerAgrees,
           HandleTransportHandshake, PeerInitializes, PeerAcknowledges,
           HandleAcknowledgement, PeerSendsSettings, HandleSettings, PeerAnswers
    <3> QED
      BY <3>1, <3>2, <3>3
  <2>4. stage' = "configuring" => outbound' = SettingsRequest
    <3>1. CASE HandleAcknowledgement
      BY <3>1 DEF HandleAcknowledgement
    <3>2. CASE UNCHANGED vars
      BY <3>2 DEF MessagesInv, vars
    <3>3. CASE Next /\ ~HandleAcknowledgement
      BY <3>3 DEF Next, Configure, Bind, BindFails, PeerOpens, HandleTcpHandshake, PeerAgrees,
           HandleTransportHandshake, PeerInitializes, HandleInitializeExtension, PeerAcknowledges,
           PeerSendsSettings, HandleSettings, PeerAnswers
    <3> QED
      BY <3>1, <3>2, <3>3
  <2>5. stage' \in {"acknowledging", "configuring", "settled", "initialized"} =>
           (learnt' = <<>> <=> routes = <<>>)
    <3>1. CASE PeerAcknowledges
      BY <3>1, ActionsLearnt
    <3>2. CASE HandleAcknowledgement \/ PeerSendsSettings \/ HandleSettings
      <4>1. /\ stage \in {"acknowledging", "configuring", "settled"}
            /\ learnt' = learnt
        BY <3>2 DEF HandleAcknowledgement, PeerSendsSettings, HandleSettings, PeerAnswers, peer
      <4> QED
        BY <4>1 DEF MessagesInv
    <3>3. CASE UNCHANGED vars
      BY <3>3 DEF MessagesInv, vars, peer
    <3>4. CASE Next /\ ~PeerAcknowledges /\ ~(HandleAcknowledgement \/ PeerSendsSettings \/ HandleSettings)
      BY <3>4 DEF Next, Configure, Bind, BindFails, PeerOpens, HandleTcpHandshake, PeerAgrees,
           HandleTransportHandshake, PeerInitializes, HandleInitializeExtension
    <3> QED
      BY <3>1, <3>2, <3>3, <3>4
  <2> QED
    BY <2>1, <2>2, <2>3, <2>4, <2>5 DEF MessagesInv
<1> QED
  BY InitMessages, <1>1, PTL DEF Spec

\* For every list of routes the extension may have, what the peer reads in the
\* registration is the identity of the extension and these routes, in order and
\* each with its method, path and name, none of them deprecated.
THEOREM RoutesLearnt == Spec => []PeerLearnsRoutes
<1>1. MessagesInv => PeerLearnsRoutes
  <2> SUFFICES ASSUME MessagesInv, stage = "registering" PROVE PeerLearnsRoutes
    BY DEF PeerLearnsRoutes
  <2>1. routes \in Seq(Registrable)
    BY RoutesAssumption DEF MessagesInv, Registrable
  <2> QED
    BY <2>1, RoutesRead DEF MessagesInv
<1> QED
  BY <1>1, MessagesInvariant, PTL

\* Once its routes are acknowledged, the host asks in a way that the peer reads as
\* a request for the environment settings and nothing besides.
THEOREM SettingsUnderstood == Spec => []PeerUnderstandsSettingsRequest
<1>1. MessagesInv => PeerUnderstandsSettingsRequest
  BY SettingsRequestRead DEF MessagesInv, PeerUnderstandsSettingsRequest
<1> QED
  BY <1>1, MessagesInvariant, PTL

LEMMA StoredValue == \A value : Reads(value, <<>>).value = value
BY ReadsFields

LEMMA ActionNamed == ACTION_EXTENSION \in ToSet(<<ACTION_EXTENSION>>) /\ ACTION_EXTENSION \notin ToSet(<<>>)
<1>1. \A string : string \in ToSet(<<string>>) /\ string \notin ToSet(<<>>)
  BY DEF ToSet
<1> QED
  BY <1>1

\* The peer reads the interfaces that were stored, whatever an override made
\* them; and where routes() said the same both times and nothing was overridden,
\* it is told of actions if and only if it read some from the registration.
THEOREM InterfacesTold == Spec => []InterfacesMatchRoutes
<1>1. BodiesInv /\ MessagesInv => InterfacesMatchRoutes
  <2> SUFFICES ASSUME BodiesInv, MessagesInv, stage = "initialized",
                      NEW heard,
                      heard = Then(ReadString(outbound.body), LAMBDA name, rest : ReadStringArray(rest))
               PROVE  /\ heard = Reads(interfaces, <<>>)
                      /\ steady => (ACTION_EXTENSION \in ToSet(heard.value) <=> learnt # <<>>)
    BY Zenon DEF InterfacesMatchRoutes
  <2>1. interfaces \in Seq(Strings) /\ outbound = InitializeResponse
    BY DEF BodiesInv, MessagesInv
  <2>2. heard = Reads(interfaces, <<>>)
    BY <2>1, InterfacesRead, Zenon
  <2>3. heard.value = interfaces
    BY <2>2, StoredValue, Zenon
  <2>4. steady => (ACTION_EXTENSION \in ToSet(interfaces) <=> routes # <<>>)
    <3>1. steady => interfaces = ImplementedInterfaces(routes)
      BY DEF MessagesInv
    <3>2. ACTION_EXTENSION \in ToSet(<<ACTION_EXTENSION>>) /\ ACTION_EXTENSION \notin ToSet(<<>>)
      BY ActionNamed
    <3> QED
      BY <3>1, <3>2 DEF ImplementedInterfaces
  <2>5. learnt = <<>> <=> routes = <<>>
    BY DEF MessagesInv
  <2> QED
    BY <2>2, <2>3, <2>4, <2>5
<1> QED
  BY <1>1, BodiesInvariant, MessagesInvariant, PTL

=============================================================================
