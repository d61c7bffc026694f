SPECIFICATION Spec
CONSTANTS
    Transform = Transform
    Camera = Camera
    RenderManager = RenderManager
    UpdateData = UpdateData
    MouseInput = MouseInput
    Components = {Transform, Camera}
    Archetypes <- AnyArchetypes
    Resources = {RenderManager, UpdateData, MouseInput}
    Functions = {f1, f2, f3, f4}
    Declared <- AllSystems
    MaxSystems = 4
SYMMETRY Names
CONSTRAINT ThreeWithWorld
INVARIANTS
    GroupsCompatible
    RacesAreOrdered
    Acyclic
    GraphIsFirstFit
PROPERTIES
    OrderIsStable
