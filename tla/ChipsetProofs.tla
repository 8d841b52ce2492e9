---- MODULE ChipsetProofs ----
(***************************************************************************)
(* Facts about the chipset classes (module Chipset) and about bit fields   *)
(* (module Bits) that the proofs about PawnMain and Session rest on.       *)
(***************************************************************************)
EXTENDS Chipset, TLAPS

-----------------------------------------------------------------------------
(* The device lists.                                                       *)

\* No device is in the lists of two classes.
LEMMA ListsDisjoint ==
  ASSUME NEW j \in 1 .. 7, NEW k \in 1 .. 7, NEW d, d \in Devices[j], d \in Devices[k]
  PROVE  j = k
<1>1. /\ Devices[1] = Ich8Devices /\ Devices[2] = Ich9Devices /\ Devices[3] = Ich10Devices
      /\ Devices[4] = Series6Devices /\ Devices[5] = Series7Devices
      /\ Devices[6] = Series8Devices /\ Devices[7] = Series9Devices
  BY DEF Devices
<1> DEFINE Ranges(i) ==
      \/ i = 1 /\ (\h2810 <= d /\ d <= \h2814)
      \/ i = 2 /\ (\h2912 <= d /\ d <= \h2919)
      \/ i = 3 /\ (\h3A14 <= d /\ d <= \h3A1A)
      \/ i = 4 /\ (\h1C44 <= d /\ d <= \h1D41)
      \/ i = 5 /\ (\h1E44 <= d /\ d <= \h1E5F)
      \/ i = 6 /\ ((\h9C41 <= d /\ d <= \h9C45) \/ (\h8C41 <= d /\ d <= \h8C5C))
      \/ i = 7 /\ ((\h9CC1 <= d /\ d <= \h9CC9) \/ (\h8CC2 <= d /\ d <= \h8CC6))
<1>2. ASSUME NEW i \in 1 .. 7, d \in Devices[i] PROVE d \in Int /\ Ranges(i)
  <2>1. CASE i = 1
    <3>1. d \in Ich8Devices BY <1>1, <1>2, <2>1
    <3> QED BY <2>1, <3>1 DEF Ich8Devices
  <2>2. CASE i = 2
    <3>1. d \in Ich9Devices BY <1>1, <1>2, <2>2
    <3> QED BY <2>2, <3>1 DEF Ich9Devices
  <2>3. CASE i = 3
    <3>1. d \in Ich10Devices BY <1>1, <1>2, <2>3
    <3> QED BY <2>3, <3>1 DEF Ich10Devices
  <2>4. CASE i = 4
    <3>1. d \in Series6Devices BY <1>1, <1>2, <2>4
    <3> QED BY <2>4, <3>1 DEF Series6Devices
  <2>5. CASE i = 5
    <3>1. d \in Series7Devices BY <1>1, <1>2, <2>5
    <3> QED BY <2>5, <3>1 DEF Series7Devices
  <2>6. CASE i = 6
    <3>1. d \in Series8Devices BY <1>1, <1>2, <2>6
    <3> QED BY <2>6, <3>1 DEF Series8Devices, Series8IntegratedIo
  <2>7. CASE i = 7
    <3>1. d \in Series9Devices BY <1>1, <1>2, <2>7
    <3> QED BY <2>7, <3>1 DEF Series9Devices, Series9IntegratedIo
  <2> QED BY <2>1, <2>2, <2>3, <2>4, <2>5, <2>6, <2>7
<1>3. d \in Int /\ Ranges(j) /\ Ranges(k) BY <1>2
<1> QED BY <1>3

-----------------------------------------------------------------------------
(* Chipset::Create.                                                        *)

\* There are seven classes.
LEMMA SevenClasses == DOMAIN Classes = 1 .. 7
BY DEF Classes

\* At most one class supports a device, and Create finds it.
LEMMA CreateFinds ==
  ASSUME NEW id, Supporting(id) # {}
  PROVE  \E k \in 1 .. 7 : Supporting(id) = {k} /\ Create(id) = Classes[k]
<1>1. DOMAIN Classes = 1 .. 7 BY SevenClasses
<1>2. PICK k \in 1 .. 7 : k \in Supporting(id) BY <1>1 DEF Supporting
<1>3. ASSUME NEW j \in Supporting(id) PROVE j = k
  BY <1>1, <1>2, <1>3, ListsDisjoint DEF Supporting
<1>4. Supporting(id) = {k} BY <1>2, <1>3
<1>5. (CHOOSE i \in Supporting(id) : \A j \in Supporting(id) : i <= j) = k
  BY <1>2, <1>4
<1> QED BY <1>4, <1>5 DEF Create

\* The names of the classes are distinct.
LEMMA ClassesDistinct ==
  ASSUME NEW j \in 1 .. 7, NEW k \in 1 .. 7, Classes[j] = Classes[k]
  PROVE  j = k
<1>1. \A i \in 1 .. 7 : i = 1 \/ i = 2 \/ i = 3 \/ i = 4 \/ i = 5 \/ i = 6 \/ i = 7 OBVIOUS
<1>2. /\ Classes[1] = "ICH8" /\ Classes[2] = "ICH9" /\ Classes[3] = "ICH10" /\ Classes[4] = "6 Series"
      /\ Classes[5] = "7 Series" /\ Classes[6] = "8 Series" /\ Classes[7] = "9 Series"
  BY DEF Classes
<1> QED BY <1>1, <1>2

\* A class that Create returns lists the device.
LEMMA CreateLists ==
  ASSUME NEW id, Create(id) # "unsupported", NEW k \in DOMAIN Classes, Create(id) = Classes[k]
  PROVE  id.device \in Devices[k]
<1>1. DOMAIN Classes = 1 .. 7 BY SevenClasses
<1>2. PICK j \in 1 .. 7 : Supporting(id) = {j} /\ Create(id) = Classes[j] BY CreateFinds DEF Create
<1>3. Classes[j] = Classes[k] /\ k \in 1 .. 7 BY <1>1, <1>2
<1>4. j = k BY <1>3, ClassesDistinct
<1>5. k \in Supporting(id) BY <1>2, <1>4
<1> QED BY <1>5 DEF Supporting

-----------------------------------------------------------------------------
(* Registers.                                                              *)

\* ReadRcbaRegister keeps bits 31:14, although the mask of Raw is too long.
LEMMA RcbaBase ==
  ASSUME NEW w \in Word(32)
  PROVE  /\ RcbaOf(w).base_address = w \cap 14 .. 31 /\ RcbaOf(w).base_address \in Word(32)
         /\ RcbaOf(w).enable = (0 \in w)
BY DEF RcbaOf, Raw, Word, Test
====
