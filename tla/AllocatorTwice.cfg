\* A two-hour studio request against a block of two lessons.
SPECIFICATION Spec
CONSTANTS
    b1 = b1
    b2 = b2
    c1 = c1
    s1 = s1
    s2 = s2
    r1 = r1
    r2 = r2
    ann = ann
    bob = bob
    cy = cy
    Weekly = {b1, b2, c1}
    Studio = {s1, s2}
    Rooms = {r1, r2}
    NoRoom = NoRoom
    RoomRank <- MCRoomRank
    Who <- MCWho
    NameRank <- MCNameRank
    Priority <- MCPriority
    Instrument <- MCInstrument
    Wishes <- MCWishes
    Favourites <- MCFavourites
    Base <- MCBase
    Date <- MCDate
    BlockGap = 1
    Opens = 9
    Closes = 13
    Halves = {b1, s2}
    MaxExtras = 1
INVARIANT HandedOverOnce
