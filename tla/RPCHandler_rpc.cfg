SPECIFICATION Spec
CONSTANTS
    Radix = 8
    Types <- SomeTypes
    Methods <- SomeMethods
    Parents <- SomeParents
    SizeOf <- SomeSizes
    BaseAt <- SomePlaces
    Objects <- SomeObjects
    TypeOf <- Classes
    NameOrder <- OrderOfNames
    Messages <- SomeMessages
    Profiles = {{}, {"reenter"}}
INVARIANTS ProtoKeeps
PROPERTIES ImplementsBus
CHECK_DEADLOCK FALSE
