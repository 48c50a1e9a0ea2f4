\* Two arenas, the bot and another player, who comes and goes between them and
\* the rest of the zone; a third address, so that an object may be new or reused.
\* Two logins may overtake what the server says about the arena before.
SPECIFICATION Spec
CONSTANTS
    p1 = p1  p2 = p2  p3 = p3  i1 = i1  i2 = i2  Self = Self
    NoPlayer = NoPlayer  NoIdent = NoIdent  Nowhere = Nowhere
    public = public  private = private
    Player = {p1, p2, p3}
    Other = {i1}
    ArenaName = {public, private}
    MaxWire = 3
    MaxLogins = 2
SYMMETRY Addresses
INVARIANTS PointersLive IndexAgrees SettledIsComplete PluginSettled
CHECK_DEADLOCK FALSE
