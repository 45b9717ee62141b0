SPECIFICATION FairPipelineSpec
CONSTANTS
    i1 = i1
    i2 = i2
    i3 = i3
    Interactions = {i1, i2, i3}
    Slots = 2
    RejectSlots = 1
    QueueCap = 1
    Names <- MCNames
    ContextNames <- MCContextNames
    HandlerIDs <- MCHandlerIDs
    RouteIDs <- MCRouteIDs
    KVKeys = {"count"}
    MemberPermissions <- MCPermissions
    LongHandlers = {"endless"}
    Definitions <- MCDefinitions
    SlashCooldown = 1
    ComponentCooldown = 1
    ModalCooldown = 1
    Bypass = {"ping"}
    Overrides <- MCOverrides
    Burst = 1
    EventSlots = 1
    Casts <- MCCasts
CHECK_DEADLOCK FALSE
INVARIANTS
    RepliesFit
    AnsweredAtTheEnd
    AcceptedIsAnswerable
    EffectsAuthorized
    CooldownKept
    PlansResolve
    QueueIsAttended
PROPERTIES
    RejectionsEnd
