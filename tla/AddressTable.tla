---------------------------- MODULE AddressTable ----------------------------
(***************************************************************************)
(* MacAddressTable: the registers that relate the IP addresses of L3 to the *)
(* MAC addresses of the system. A table is the sequence of its registers;   *)
(* the source numbers them from 0, this module from 1, as its sequences.    *)
(***************************************************************************)
EXTENDS Integers, SequencesExt

None == "NULL"          \* the null pointer
NoMac == 255            \* -1 as the uint8_t that getMacAddress returns

Register(ip, mac, isBS) == [ip |-> ip, mac |-> mac, flagBS |-> isBS]

addEntry(t, ip, mac, isBS) == Append(t, Register(ip, mac, isBS))

\* Mutant: the registers behind the deleted one are not moved.
deleteEntryLast(t, id) ==
    IF id > Len(t) THEN t ELSE [i \in 1 .. Len(t) - 1 |-> t[i]]

\* The registers behind id move one place down; a wrong id is ignored.
deleteEntry(t, id) ==
    IF id > Len(t) THEN t
    ELSE [i \in 1 .. Len(t) - 1 |-> IF i < id THEN t[i] ELSE t[i + 1]]

\* The searches run through the registers in order: the first match counts.
getMacAddress(t, ip) ==
    LET i == SelectInSeq(t, LAMBDA r : r.ip = ip)
    IN IF i = 0 THEN NoMac ELSE t[i].mac

getIpAddress(t, mac) ==
    LET i == SelectInSeq(t, LAMBDA r : r.mac = mac)
    IN IF i = 0 THEN None ELSE t[i].ip

getFlagBS(t, mac) ==
    LET i == SelectInSeq(t, LAMBDA r : r.mac = mac)
    IN i # 0 /\ t[i].flagBS

\* CONFIG_MODE: the base station 0 and the user equipments 1 and 2.
ManagerTable ==
    LET bs == addEntry(<< >>, "10.0.0.10", 0, TRUE)
        u1 == addEntry(bs, "10.0.0.11", 1, FALSE)
    IN addEntry(u1, "10.0.0.12", 2, FALSE)

(***************************************************************************)
(* Properties                                                               *)
(***************************************************************************)
\* No two registers have an address in common.
Distinct(t) ==
    \A i, j \in DOMAIN t : i # j => t[i].ip # t[j].ip /\ t[i].mac # t[j].mac

Tables == {t \in UNION {[1 .. n -> {Register(r[1], r[2], r[2] = 0) :
                                      r \in {"a", "b", "c"} \X {0, 1, 2}}] :
                         n \in 0 .. 3} : Distinct(t)}

\* After an entry is deleted, the table (MacAddressTable::deleteEntry) answers
\* for every other entry what it answered before, by IP address and by MAC
\* address, and no longer knows the deleted one; the searches in both
\* directions invert each other on every address the table knows.
KeepsLookups(t, id) ==
    LET d == deleteEntry(t, id)
    IN /\ \A i \in DOMAIN t :
            IF i = id
            THEN /\ getMacAddress(d, t[i].ip) = NoMac
                 /\ getIpAddress(d, t[i].mac) = None
                 /\ ~getFlagBS(d, t[i].mac)
            ELSE /\ getMacAddress(d, t[i].ip) = t[i].mac
                 /\ getIpAddress(d, t[i].mac) = t[i].ip
                 /\ getFlagBS(d, t[i].mac) = t[i].flagBS
       /\ Len(d) = Len(t) - (IF id > Len(t) THEN 0 ELSE 1)

DeletionKeepsLookups ==
    \A t \in Tables \cup {ManagerTable} : \A id \in 1 .. Len(t) + 1 :
        KeepsLookups(t, id)
=============================================================================
