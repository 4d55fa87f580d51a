--------------------------- MODULE MoveSplineFlag ---------------------------
(***************************************************************************)
(* Movement::MoveSplineFlag (src/server/game/Movement/Spline/              *)
(* MoveSplineFlag.h): a 32-bit word of spline flags, read and written as   *)
(* raw() through the eFlags masks.  The state is the word; the actions are *)
(* the non-constant interface: the seven Enable* setters, operator &= and  *)
(* operator |=, with the masks callers pass drawn from constant sets.      *)
(***************************************************************************)
EXTENDS Integers, Sequences, Bitwise

LOCAL INSTANCE SequencesExt

CONSTANTS
    InitWord,   \* words passed to MoveSplineFlag(uint32 f); 0 is the default
    AndMask,    \* masks callers pass to operator &=
    OrMask      \* masks callers pass to operator |=

VARIABLE raw

(* eFlags: the masks used by the Enable* setters and Mask_No_Monster_Move. *)
FallingSlow      == 2^4
Done             == 2^5
Falling          == 2^6
Flying           == 2^9
Catmullrom       == 2^11
TransportEnter   == 2^15
TransportExit    == 2^16
SmoothGroundPath == 2^20
Animation        == 2^25
Parabolic        == 2^26
FadeObject       == 2^27

Cyclic           == 2^12
Enter_Cycle      == 2^13

(* The word is kept to its low 31 bits: bit 31 (Unknown10, "not         *)
(* verified") is neither set nor cleared by any setter, and TLC integers   *)
(* stop at 2^31 - 1.                                                       *)
AllBits == 2147483647


(* ~x on the word: the complement within those bits.                       *)
Complement(x) == AllBits - x

(* raw() = (raw() & ~clear) | set, the shape of every Enable* setter.      *)
Update(clear, set) == raw' = (raw & Complement(clear)) | set

hasFlag(w, f) == (w & f) # 0

(* The bool bit-field members that alias the word, in declaration order: *)
(* member i is bit i-1 of raw() (allocation from the low bit).            *)
MembersDoneAfterFalling ==
    <<"unknown0x1", "unknown0x2", "unknown0x4", "unknown0x8", "fallingSlow",
      "falling", "done", "no_spline", "unknown1", "flying",
      "orientationFixed", "catmullrom", "cyclic", "enter_cycle", "frozen",
      "transportEnter", "transportExit", "unknown2", "unknown3", "backward",
      "smoothGroundPath", "canSwim", "uncompressedPath", "unknown4",
      "unknown5", "animation", "parabolic", "fadeObject", "steering",
      "unknown8", "unknown9", "unknown10">>

Members ==
    <<"unknown0x1", "unknown0x2", "unknown0x4", "unknown0x8", "fallingSlow",
      "done", "falling", "no_spline", "unknown1", "flying",
      "orientationFixed", "catmullrom", "cyclic", "enter_cycle", "frozen",
      "transportEnter", "transportExit", "unknown2", "unknown3", "backward",
      "smoothGroundPath", "canSwim", "uncompressedPath", "unknown4",
      "unknown5", "animation", "parabolic", "fadeObject", "steering",
      "unknown8", "unknown9", "unknown10">>

(* Reading a member through the bit-field view of the word.               *)
Field(w, name) ==
    (w \div 2^(SelectInSeq(Members, LAMBDA m : m = name) - 1)) % 2 = 1

Init == raw \in InitWord

EnableAnimation ==
    Update(Falling | Parabolic | FallingSlow | FadeObject, Animation)

EnableParabolic ==
    Update(Falling | Animation | FallingSlow | FadeObject, Parabolic)

EnableFlying == Update(Falling, Flying)

(* Variant of EnableFalling whose mask omits Parabolic; used to show that  *)
(* ExclusiveFlags detects it.                                              *)
EnableFallingKeepsParabolic == Update(Animation | Flying, Falling)

EnableFalling == Update(Parabolic | Animation | Flying, Falling)

EnableCatmullRom == Update(SmoothGroundPath, Catmullrom)

EnableTransportEnter == Update(TransportExit, TransportEnter)

EnableTransportExit == Update(TransportEnter, TransportExit)

AndAssign(f) == raw' = raw & f

OrAssign(f) == raw' = raw | f

Next ==
    \/ EnableAnimation \/ EnableParabolic \/ EnableFlying \/ EnableFalling
    \/ EnableCatmullRom \/ EnableTransportEnter \/ EnableTransportExit
    \/ \E f \in AndMask : AndAssign(f)
    \/ \E f \in OrMask : OrAssign(f)

Spec == Init /\ [][Next]_raw

-----------------------------------------------------------------------------
(* The pairs of flags no sequence of setter calls combines: Falling with   *)
(* Parabolic (the eFlags comments: "can't be combined"), Animation with    *)
(* either of them, Falling with Flying, and the two transport directions.  *)
(* Each holds only because every setter that sets one member clears the   *)
(* other, across any interleaving of setters and of &= / |= with masks     *)
(* outside these groups.                                                   *)
ExclusivePairs ==
    {<<Falling, Parabolic>>, <<Animation, Parabolic>>, <<Animation, Falling>>,
     <<Falling, Flying>>, <<TransportEnter, TransportExit>>}

ExclusiveFlags ==
    \A p \in ExclusivePairs : ~(hasFlag(raw, p[1]) /\ hasFlag(raw, p[2]))

(* Every flag the setters and callers use reads the same through its      *)
(* eFlags mask and through the bit-field member of the same name          *)
(* (MoveSplineFlag.h declares both views of one uint32), in every word    *)
(* the setters reach.  A member declared out of place would make code     *)
(* that tests e.g. spline.falling see another flag than hasFlag(Falling). *)
NamedFlags ==
    {<<"fallingSlow", FallingSlow>>, <<"done", Done>>, <<"falling", Falling>>,
     <<"flying", Flying>>, <<"catmullrom", Catmullrom>>,
     <<"cyclic", Cyclic>>, <<"enter_cycle", Enter_Cycle>>,
     <<"transportEnter", TransportEnter>>, <<"transportExit", TransportExit>>,
     <<"smoothGroundPath", SmoothGroundPath>>, <<"animation", Animation>>,
     <<"parabolic", Parabolic>>, <<"fadeObject", FadeObject>>}

FieldsMatchMasks ==
    \A nf \in NamedFlags : Field(raw, nf[1]) = hasFlag(raw, nf[2])

=============================================================================
